---- MODULE Spec2Model ----
(***************************************************************************)
(* Seatek sensor / hydrograph pipeline.                                    *)
(*                                                                         *)
(* Four specifications share this module:                                  *)
(*   SpecProc      the SeatekDataProcessor of utils/processor.py applied   *)
(*                 to one river-mile table drawn from bounded sets         *)
(*                 (convert_to_navd88, then process_data);                 *)
(*   Spec          Application.run / main of                               *)
(*                 hydrograph_seatek_analysis/app.py with DataLoader,      *)
(*                 SeatekDataProcessor and ChartGenerator;                 *)
(*   SpecFn        one call of a stand-alone function on arguments drawn   *)
(*                 from bounded sets (_validate_columns,                   *)
(*                 validate_numeric_data, calculate_correlation,           *)
(*                 interpret_correlation, create_visualization,            *)
(*                 convert_to_navd88 with a configuration);                *)
(*   SpecAnalyzer  DataAnalyzer.process_all_data of                        *)
(*                 sensor_visualization_v2.py called twice in a row.       *)
(*                                                                         *)
(* A table cell is a record [k, n, d]: k = "nan" (missing), "str" (a       *)
(* non-numeric string) or "num" (the rational n/d, d > 0, in lowest        *)
(* terms), as the workbook holds it.  What the code computes from cells is *)
(* computed in IEEE-754 doubles, records [k, s, m, e]: the NAVD88          *)
(* conversion and its constants, the river mile formatted with :.1f, and   *)
(* the correlation functions.                                              *)
(***************************************************************************)
EXTENDS Integers, Sequences, FiniteSets, TLC

VARIABLES
    \* ---- SpecProc: one processor call
    ptable,     \* river_mile_data[RM].data and its column set
    psummary,   \* summary_data rows (River_Mile, Y_Offset)
    pstage,     \* "idle" | "init" | "converted" | "processed"
    psensor,    \* sensor argument
    pyear,      \* year argument
    pconv,      \* result of convert_to_navd88 on the whole table
    pres,       \* result of process_data
    \* ---- Spec: Application.run
    pc,         \* position in main / run / process_data
    env,        \* the inputs the run finds, and what setup() / load_data() returned
    rmData,     \* processor.river_mile_data: river mile -> loaded file
    loadLog,    \* per file of the processed directory: "loaded" | "failed"
    jobs,       \* the (river mile, sensor, year) loop bodies the loops reach, in order
    jobIdx,     \* index of the current job in jobs
    cur,        \* processed_data / chart of the current job
    visits,     \* the jobs whose loop body was entered, in order
    outcome,    \* per job index: "none" | "raised" | "skipped" | "nochart" | "savefail" | "saved"
    rendered,   \* job indices for which create_chart was called
    openFigs,   \* job indices whose matplotlib figure is open
    written,    \* output paths written by savefig
    dirs,       \* output directories created by save_chart
    success_count,
    error_count,
    runResult,  \* return value of Application.run: "none" | "true" | "false"
    exitCode,   \* return value of main: -1 while running
    \* ---- SpecFn: one call of a stand-alone function
    fop,        \* the function called: "off" when no call is modelled
    fstage,     \* "in" (arguments chosen) | "out" (returned) | "again" (called on its own result)
    fin,        \* the arguments
    fout,       \* what the call returned or raised
    \* ---- SpecAnalyzer: DataAnalyzer.process_all_data, run twice
    apc,        \* "off" | "start" | "job" | "end" | "done"
    asheets,    \* data_processor.river_mile_data: sheet name -> table, in insertion order
    awritable,  \* the sensor directories savefig can write into
    afs,        \* the output files that exist, each with the run and job that wrote it
    adirs,      \* the output directories that exist
    arun,       \* 1 or 2: which call of process_all_data is running
    ajobs,      \* the (sheet, sensor, year) iteration order of the running call
    aidx,       \* index of the current job in ajobs
    alog        \* one entry per call of _process_year_data

procVars == <<ptable, psummary, pstage, psensor, pyear, pconv, pres>>
appVars == <<pc, env, rmData, loadLog, jobs, jobIdx, cur, visits, outcome,
             rendered, openFigs, written, dirs, success_count, error_count,
             runResult, exitCode>>
fnVars == <<fop, fstage, fin, fout>>
anVars == <<apc, asheets, awritable, afs, adirs, arun, ajobs, aidx, alog>>
auxVars == <<fnVars, anVars>>
vars == <<procVars, appVars, auxVars>>

----------------------------------------------------------------------------
\* Bounds

MaxRows == 2

MaxFiles == 2

----------------------------------------------------------------------------
\* Cells and rational arithmetic

NaN == [k |-> "nan", n |-> 0, d |-> 1]

Str == [k |-> "str", n |-> 0, d |-> 1]

Abs(x) == IF x < 0 THEN -x ELSE x

RECURSIVE GCD(_, _)
GCD(a, b) == IF b = 0 THEN a ELSE GCD(b, a % b)

Num(n, d) ==
    LET g == GCD(Abs(n), Abs(d))
        s == IF d < 0 THEN -1 ELSE 1
    IN  [k |-> "num", n |-> (s * n) \div g, d |-> (s * d) \div g]

Int2Num(i) == Num(i, 1)

\* pd.to_numeric(..., errors='coerce'): a non-numeric string becomes missing
to_numeric(c) == IF c.k = "str" THEN NaN ELSE c

notna(c) == c.k # "nan"

IsZero(c) == c.k = "num" /\ c.n = 0

\* a < b on the numbers of two cells (the order of the merge keys and of
\* sorted())
Less(a, b) == a.k = "num" /\ b.k = "num" /\ a.n * b.d < b.n * a.d

----------------------------------------------------------------------------
\* Cells beyond the rationals

\* float('inf') and float('-inf')
Inf == [k |-> "inf", n |-> 1, d |-> 1]

NegInf == [k |-> "inf", n |-> -1, d |-> 1]

\* a != b on floats: NaN differs from everything
ne(a, b) == a.k = "nan" \/ b.k = "nan" \/ a # b

\* a > 0 on floats: false for NaN
gt_zero(a) == a.k \in {"num", "inf"} /\ a.n > 0

----------------------------------------------------------------------------
\* float64: the doubles of numpy and of Python's float.

Pow2(i) == 2^i

\* the base of the digits of a natural number
Base == Pow2(15)

\* A natural number is the sequence of its digits in base Base, the lowest
\* first and the last one not zero; zero is the empty sequence.

\* digit i of a, zero outside its digits
BigDigit(a, i) == IF 1 <= i /\ i <= Len(a) THEN a[i] ELSE 0

\* the index of the last digit of a that is not zero
BigLen(a) ==
    IF \A i \in 1..Len(a) : a[i] = 0 THEN 0
    ELSE CHOOSE i \in 1..Len(a) : a[i] # 0 /\ \A l \in (i + 1)..Len(a) : a[l] = 0

\* a without its leading zero digits
BigTrim(a) == SubSeq(a, 1, BigLen(a))

\* the digits of n < Base^3
BigOfNat(n) == BigTrim(<<n % Base, (n \div Base) % Base, n \div (Base * Base)>>)

\* whether the entries of t below entry i carry into it, the entries of t
\* being below 2 * Base
BigCarry(t, i) ==
    \E j \in 1..(i - 1) : t[j] >= Base /\ \A l \in (j + 1)..(i - 1) : t[l] = Base - 1

\* the digits of the number whose digit sums are t, its last entry zero
BigCarried(t) ==
    BigTrim([i \in 1..Len(t) |-> (t[i] + (IF BigCarry(t, i) THEN 1 ELSE 0)) % Base])

BigAddTo(a, b, n) == BigCarried([i \in 1..n |-> BigDigit(a, i) + BigDigit(b, i)])

\* a + b
BigAdd(a, b) ==
    IF a = <<>> THEN b
    ELSE IF b = <<>> THEN a
    ELSE BigAddTo(a, b, (IF Len(a) > Len(b) THEN Len(a) ELSE Len(b)) + 1)

\* whether the digits of a and b below digit i borrow from it
BigBorrow(a, b, i) ==
    \E j \in 1..(i - 1) :
        /\ BigDigit(a, j) < BigDigit(b, j)
        /\ \A l \in (j + 1)..(i - 1) : BigDigit(a, l) = BigDigit(b, l)

\* a - b, for a >= b
BigSub(a, b) ==
    IF a = b THEN <<>>
    ELSE BigTrim([i \in 1..Len(a) |->
        (a[i] - BigDigit(b, i) - (IF BigBorrow(a, b, i) THEN 1 ELSE 0) + Base) % Base])

\* -1, 0 or 1 as a < b, a = b or a > b
BigCmp(a, b) ==
    IF Len(a) # Len(b) THEN (IF Len(a) < Len(b) THEN -1 ELSE 1)
    ELSE IF a = b THEN 0
    ELSE IF a[BigLen([i \in 1..Len(a) |-> a[i] - b[i]])] < b[BigLen([i \in 1..Len(a) |-> a[i] - b[i]])]
         THEN -1 ELSE 1

\* a * k for a digit k: the low halves of the digit products plus their
\* high halves one digit up
BigMulSmall(a, k) ==
    IF a = <<>> \/ k = 0 THEN <<>>
    ELSE BigCarried([i \in 1..(Len(a) + 1) |->
             ((BigDigit(a, i) * k) % Base) + ((BigDigit(a, i - 1) * k) \div Base)])

\* a * Base^n
BigShiftDigits(a, n) == IF a = <<>> THEN a ELSE [i \in 1..n |-> 0] \o a

\* a * b, by halves of b
RECURSIVE BigMul(_, _)
BigMul(a, b) ==
    IF b = <<>> THEN <<>>
    ELSE IF Len(b) = 1 THEN BigMulSmall(a, b[1])
    ELSE BigAdd(BigMul(a, SubSeq(b, 1, Len(b) \div 2)),
                BigShiftDigits(BigMul(a, SubSeq(b, (Len(b) \div 2) + 1, Len(b))),
                               Len(b) \div 2))

\* a * 2^s for s < 15
BigShlBits(a, s) ==
    BigTrim([i \in 1..(Len(a) + 1) |->
        (BigDigit(a, i) % Pow2(15 - s)) * Pow2(s) + (BigDigit(a, i - 1) \div Pow2(15 - s))])

\* a * 2^n
BigShl(a, n) ==
    IF a = <<>> \/ n = 0 THEN a ELSE BigShiftDigits(BigShlBits(a, n % 15), n \div 15)

\* a \div 2^s for s < 15, without the lowest d digits of a
BigShrBits(a, d, s) ==
    BigTrim([i \in 1..(Len(a) - d) |->
        (a[i + d] \div Pow2(s)) + (BigDigit(a, i + d + 1) % Pow2(s)) * Pow2(15 - s)])

\* a \div 2^n
BigShr(a, n) == IF n \div 15 >= Len(a) THEN <<>> ELSE BigShrBits(a, n \div 15, n % 15)

\* the number of binary digits of a
BigBitLen(a) ==
    IF a = <<>> THEN 0
    ELSE 15 * (Len(a) - 1) + (CHOOSE i \in 1..15 : Pow2(i - 1) <= a[Len(a)] /\ a[Len(a)] < Pow2(i))

\* the number of zero binary digits a # 0 ends in
BigLowDigit(a) == CHOOSE i \in 1..Len(a) : a[i] # 0 /\ \A l \in 1..(i - 1) : a[l] = 0

BigTrailingZeros(a) ==
    15 * (BigLowDigit(a) - 1) + (CHOOSE i \in 0..14 : a[BigLowDigit(a)] % Pow2(i + 1) = Pow2(i))

\* the quotient of the two leading digits of r by the leading digit of b,
\* for r < Base * b: when that digit of b is Base \div 2 or more it is the
\* largest d with d * b <= r, or one or two more
BigQuotEstimate(r, b) ==
    (BigDigit(r, Len(b) + 1) * Base + BigDigit(r, Len(b))) \div b[Len(b)]

\* the largest digit d <= est with d * b <= r
RECURSIVE BigQuotDigit(_, _, _)
BigQuotDigit(r, b, est) ==
    IF BigCmp(BigMulSmall(b, est), r) <= 0 THEN est ELSE BigQuotDigit(r, b, est - 1)

\* long division of a by b from digit i of a down, the leading digit of
\* b being Base \div 2 or more: q holds the quotient digits found, r the
\* remainder of the digits above i
RECURSIVE BigDivFrom(_, _, _, _, _)
RECURSIVE BigDivDigit(_, _, _, _, _)
BigDivFrom(a, b, i, q, r) ==
    IF i = 0 THEN [q |-> BigTrim(q), r |-> r]
    ELSE BigDivDigit(a, b, i, q, BigTrim(<<a[i]>> \o r))

BigDivSub(a, b, i, q, part, d) ==
    IF d = 0 THEN BigDivFrom(a, b, i - 1, <<0>> \o q, part)
    ELSE BigDivFrom(a, b, i - 1, <<d>> \o q, BigSub(part, BigMulSmall(b, d)))

BigDivDigit(a, b, i, q, part) ==
    IF part = <<>> \/ BigQuotEstimate(part, b) < Base
    THEN BigDivSub(a, b, i, q, part, BigQuotDigit(part, b, BigQuotEstimate(part, b)))
    ELSE BigDivSub(a, b, i, q, part, BigQuotDigit(part, b, Base - 1))

\* the quotient and the remainder of a * 2^up by b * 2^up
BigDivScaled(qr, up) == [q |-> qr.q, r |-> BigShr(qr.r, up)]

\* the division of a by b, a having as many digits as b or more: the
\* leading Len(b) - 1 digits of a are the first remainder
BigDivLong(a, b) ==
    BigDivFrom(a, b, Len(a) - Len(b) + 1, <<>>, SubSeq(a, Len(a) - Len(b) + 2, Len(a)))

\* the quotient and the remainder of a by b # 0; both are first scaled
\* to bring the leading digit of b to Base \div 2 or more
BigDivMod(a, b) ==
    IF Len(a) < Len(b) THEN [q |-> <<>>, r |-> a]
    ELSE BigDivScaled(BigDivLong(BigShl(a, (15 - (BigBitLen(b) % 15)) % 15),
                                 BigShl(b, (15 - (BigBitLen(b) % 15)) % 15)),
                      (15 - (BigBitLen(b) % 15)) % 15)

\* Newton's iteration x -> (x + a \div x) \div 2 downwards from x with
\* x * x >= a: it ends at the largest r with r * r <= a
RECURSIVE BigSqrtFrom(_, _)
BigSqrtNext(a, x, y) == IF BigCmp(y, x) >= 0 THEN x ELSE BigSqrtFrom(a, y)

BigSqrtFrom(a, x) == BigSqrtNext(a, x, BigShr(BigAdd(x, BigDivMod(a, x).q), 1))

\* the same iteration on machine integers, for n < Base * Base
RECURSIVE IntSqrtFrom(_, _)
IntSqrtNext(n, x, y) == IF y >= x THEN x ELSE IntSqrtFrom(n, y)

IntSqrtFrom(n, x) == IntSqrtNext(n, x, (x + n \div x) \div 2)

\* a number above the root of a: the root of the leading 29 or 30 binary
\* digits of a, plus one, followed by half zeros
BigSqrtStart(a, half) ==
    BigShl(BigOfNat(IntSqrtFrom(BigDigit(BigShr(a, 2 * half), 1)
                                + BigDigit(BigShr(a, 2 * half), 2) * Base, Base) + 1),
           half)

\* the largest r with r * r <= a
BigSqrt(a) ==
    IF a = <<>> THEN <<>>
    ELSE BigSqrtFrom(a, BigSqrtStart(a, IF BigBitLen(a) > 30
                                        THEN (BigBitLen(a) - 29) \div 2 ELSE 0))

\* A double is [k, s, m, e]: a finite one (k = "num") is (-1)^s * m * 2^e
\* with m odd, or m = 0 and e = 0; the others are the infinities
\* (k = "inf") and NaN (k = "nan").
FNaN == [k |-> "nan", s |-> 0, m |-> <<>>, e |-> 0]

FInf(s) == [k |-> "inf", s |-> s, m |-> <<>>, e |-> 0]

FZero(s) == [k |-> "num", s |-> s, m |-> <<>>, e |-> 0]

FIsZero(a) == a.k = "num" /\ a.m = <<>>

\* the sign of a product or a quotient
FSignOf(a, b) == (a.s + b.s) % 2

\* (-1)^s * (m \div 2^z) * 2^(e + z) for an m that ends in z zero digits
FShifted(s, m, e, z) == [k |-> "num", s |-> s, m |-> BigShr(m, z), e |-> e + z]

\* (-1)^s * m * 2^e, exactly representable, in the form above; past the
\* largest double it is an infinity
FExact(s, m, e) ==
    IF m = <<>> THEN FZero(s)
    ELSE IF BigBitLen(m) + e > 1024 THEN FInf(s)
    ELSE FShifted(s, m, e, BigTrailingZeros(m))

\* the binary digits of m * 2^e that a double cannot keep: those past the
\* 53rd, and those below 2^-1074
FDropped(m, e) ==
    IF BigBitLen(m) - 53 > -1074 - e THEN BigBitLen(m) - 53 ELSE -1074 - e

\* ties to even: q is m without its last drop digits, c compares the
\* digits dropped with one half
FRoundsUp(c, q, sticky) == c > 0 \/ (c = 0 /\ (sticky \/ (q # <<>> /\ q[1] % 2 = 1)))

FRoundQuot(s, m, e, sticky, drop, q) ==
    FExact(s,
           IF FRoundsUp(BigCmp(BigSub(m, BigShl(q, drop)), BigShl(<<1>>, drop - 1)),
                        q, sticky)
           THEN BigAdd(q, <<1>>) ELSE q,
           e + drop)

FRoundDrop(s, m, e, sticky, drop) ==
    IF drop <= 0 THEN FExact(s, m, e)
    ELSE FRoundQuot(s, m, e, sticky, drop, BigShr(m, drop))

\* round to nearest, ties to even: the double nearest to (-1)^s * v, where
\* v = m * 2^e when sticky is false and m * 2^e < v < (m + 1) * 2^e when it
\* is true
FRound(s, m, e, sticky) ==
    IF m = <<>> /\ ~sticky THEN FZero(s) ELSE FRoundDrop(s, m, e, sticky, FDropped(m, e))

\* float(n) for an integer n
FInt(n) == FExact(IF n < 0 THEN 1 ELSE 0, BigOfNat(IF n < 0 THEN -n ELSE n), 0)

FNeg(a) == IF a.k = "nan" THEN a ELSE [a EXCEPT !.s = 1 - a.s]

\* abs(a)
FAbs(a) == IF a.k = "nan" THEN a ELSE [a EXCEPT !.s = 0]

\* (-1)^sa * ma + (-1)^sb * mb, times 2^e, not both zero; c compares ma
\* with mb
FAddAligned(sa, ma, sb, mb, e, c) ==
    FRound(IF sa = sb \/ c > 0 THEN sa ELSE IF c < 0 THEN sb ELSE 0,
           IF sa = sb THEN BigAdd(ma, mb)
           ELSE IF c > 0 THEN BigSub(ma, mb) ELSE BigSub(mb, ma),
           e, FALSE)

\* the sum of two finite doubles that are not zero, e the smaller exponent
FAddAt(a, b, e) ==
    FAddAligned(a.s, BigShl(a.m, a.e - e), b.s, BigShl(b.m, b.e - e), e,
                BigCmp(BigShl(a.m, a.e - e), BigShl(b.m, b.e - e)))

\* a + b
FAdd(a, b) ==
    IF a.k = "nan" \/ b.k = "nan" THEN FNaN
    ELSE IF a.k = "inf" THEN (IF b.k = "inf" /\ b.s # a.s THEN FNaN ELSE a)
    ELSE IF b.k = "inf" THEN b
    ELSE IF a.m = <<>> /\ b.m = <<>> THEN FZero(IF a.s = b.s THEN a.s ELSE 0)
    ELSE IF a.m = <<>> THEN b
    ELSE IF b.m = <<>> THEN a
    ELSE FAddAt(a, b, IF a.e < b.e THEN a.e ELSE b.e)

\* a - b
FSub(a, b) == FAdd(a, FNeg(b))

\* a * b
FMul(a, b) ==
    IF a.k = "nan" \/ b.k = "nan" THEN FNaN
    ELSE IF a.k = "inf" \/ b.k = "inf"
         THEN (IF FIsZero(a) \/ FIsZero(b) THEN FNaN ELSE FInf(FSignOf(a, b)))
    ELSE FRound(FSignOf(a, b), BigMul(a.m, b.m), a.e + b.e, FALSE)

\* the quotient qr.q, with a remainder qr.r, times 2^e
FRoundDivMod(s, qr, e) == FRound(s, qr.q, e, qr.r # <<>>)

\* the quotient of two finite doubles that are not zero, from the quotient
\* of a.m * 2^up by b.m, which has 56 binary digits or more
FDivAt(a, b, up) ==
    FRoundDivMod(FSignOf(a, b), BigDivMod(BigShl(a.m, up), b.m), a.e - b.e - up)

\* a / b of numpy: x / 0 is an infinity, 0 / 0 is NaN
FDiv(a, b) ==
    IF a.k = "nan" \/ b.k = "nan" THEN FNaN
    ELSE IF a.k = "inf" THEN (IF b.k = "inf" THEN FNaN ELSE FInf(FSignOf(a, b)))
    ELSE IF b.k = "inf" THEN FZero(FSignOf(a, b))
    ELSE IF b.m = <<>> THEN (IF a.m = <<>> THEN FNaN ELSE FInf(FSignOf(a, b)))
    ELSE IF a.m = <<>> THEN FZero(FSignOf(a, b))
    ELSE FDivAt(a, b, BigBitLen(b.m) + 56 - BigBitLen(a.m))

\* the root r of n, the largest with r * r <= n, times 2^e
FRoundRoot(n, r, e) == FRound(0, r, e, BigMul(r, r) # n)

\* the root of n * 4^e
FSqrtOf(n, e) == FRoundRoot(n, BigSqrt(n), e)

\* the root of m * 2^e for e even: m is first given 112 binary digits or
\* more, by up pairs of zeros
FSqrtEven(m, e, up) == FSqrtOf(BigShl(m, 2 * up), (e \div 2) - up)

\* np.sqrt(a): NaN for a negative number
FSqrt(a) ==
    IF a.k = "nan" THEN FNaN
    ELSE IF a.m = <<>> /\ a.k = "num" THEN a
    ELSE IF a.s = 1 THEN FNaN
    ELSE IF a.k = "inf" THEN a
    ELSE FSqrtEven(BigShl(a.m, a.e % 2), a.e - (a.e % 2),
                   (113 - BigBitLen(a.m)) \div 2)

\* a == b (false for NaN, true for 0.0 and -0.0)
FEq(a, b) ==
    /\ a.k # "nan" /\ b.k # "nan"
    /\ \/ a = b
       \/ FIsZero(a) /\ FIsZero(b)

\* abs(a) < abs(b) for two finite doubles that are not zero and have the
\* same number of digits before the binary point, e the smaller exponent
FMagLessAt(a, b, e) == BigCmp(BigShl(a.m, a.e - e), BigShl(b.m, b.e - e)) < 0

\* abs(a) < abs(b), neither being NaN
FMagLess(a, b) ==
    IF b.k = "inf" THEN a.k # "inf"
    ELSE IF a.k = "inf" \/ b.m = <<>> THEN FALSE
    ELSE IF a.m = <<>> THEN TRUE
    ELSE IF BigBitLen(a.m) + a.e # BigBitLen(b.m) + b.e
         THEN BigBitLen(a.m) + a.e < BigBitLen(b.m) + b.e
    ELSE FMagLessAt(a, b, IF a.e < b.e THEN a.e ELSE b.e)

\* a < b (false for NaN)
FLess(a, b) ==
    /\ a.k # "nan" /\ b.k # "nan"
    /\ ~FEq(a, b)
    /\ IF a.s # b.s THEN a.s = 1
       ELSE IF a.s = 0 THEN FMagLess(a, b) ELSE FMagLess(b, a)

\* a >= b (false for NaN)
FGeq(a, b) == a.k # "nan" /\ b.k # "nan" /\ ~FLess(a, b)

\* the double a literal n/d or n.d denotes: the one nearest to the quotient
FNum(n, d) == FDiv(FInt(n), FInt(d))

\* np.float64 of a table cell
float64(c) ==
    IF c.k = "num" THEN (IF c.d = 1 THEN FInt(c.n) ELSE FNum(c.n, c.d))
    ELSE IF c.k = "inf" THEN FInf(IF c.n < 0 THEN 1 ELSE 0)
    ELSE FNaN

----------------------------------------------------------------------------
\* NAVD88 constants (the literals of convert_to_navd88), as the doubles
\* Python makes of them

OffsetA == FNum(19, 10)

OffsetB == FNum(32, 100)

\* 400 / 30.48
ScaleFactor == FDiv(FInt(400), FNum(3048, 100))

Sixty == FInt(60)

----------------------------------------------------------------------------
\* SeatekDataProcessor (utils/processor.py).  Application imports the class
\* from the package's data.processor module and passes it the configuration;
\* the class body modelled here is the one of utils/processor.py.

SensorNames == {"Sensor_1", "Sensor_2"}

\* self.offsets = summary_data.set_index('River_Mile')['Y_Offset'].to_dict()
\* (a later row of the same river mile replaces an earlier one)
RECURSIVE setup_offsets(_)
setup_offsets(summary) ==
    IF summary = <<>> THEN <<>>
    ELSE LET n == Len(summary)
             rest == setup_offsets(SubSeq(summary, 1, n - 1))
             keep == SelectSeq(rest, LAMBDA e : e.rm # summary[n].rm)
         IN  Append(keep, summary[n])

\* self.offsets.get(river_mile, 0)
offsets_get(summary, river_mile) ==
    LET hit == SelectSeq(setup_offsets(summary), LAMBDA e : e.rm = river_mile)
    IN  IF hit = <<>> THEN Int2Num(0) ELSE hit[1].y

\* mutant: offset_b added instead of subtracted
navd88_adds_offset_b(raw, y_offset) ==
    FAdd(FMul(FNeg(FAdd(FAdd(raw, OffsetA), OffsetB)), ScaleFactor), y_offset)

\* -(raw_data + 1.9 - 0.32) * (400 / 30.48) + y_offset on doubles, each
\* operation rounded, in the order Python evaluates them
navd88(raw, y_offset) ==
    FAdd(FMul(FNeg(FSub(FAdd(raw, OffsetA), OffsetB)), ScaleFactor), y_offset)

MapSeq(s, F(_)) == [i \in 1..Len(s) |-> F(s[i])]

\* convert_to_navd88 on the rows of a frame: adds Time (Minutes), overwrites
\* the sensor column with doubles, leaves the other columns alone.  The
\* Time (Seconds) column of the tables holds numbers.
convert_to_navd88(data, sensor, river_mile, summary) ==
    LET y_offset == float64(offsets_get(summary, river_mile))
        conv(r) == [t    |-> r.t,
                    yr   |-> r.yr,
                    h    |-> r.h,
                    tmin |-> FDiv(float64(r.t), Sixty),
                    s    |-> [r.s EXCEPT ![sensor] =
                                  navd88(float64(to_numeric(r.s[sensor])), y_offset)]]
    IN  MapSeq(data, conv)

\* processed['Hydrograph (Lagged)'].notna() & (... != 0) on the cells read
valid_value(c) == notna(c) /\ ~IsZero(c)

\* processed[sensor].notna() & (processed[sensor] != 0) on the converted
\* column
valid_sensor(c) == notna(c) /\ ~FIsZero(c)

\* mutant: the hydrograph view is left as filtered
force_hydro_keep(hydro_df) == hydro_df

\* hydro_df.loc[:, 'Hydrograph (Lagged)'] = 0
force_hydro_zero(hydro_df) ==
    MapSeq(hydro_df, LAMBDA r : [r EXCEPT !.h = Int2Num(0)])

\* the distinct join keys in ascending order
RECURSIVE SortKeys(_)
SortKeys(K) ==
    IF K = {} THEN <<>>
    ELSE LET m == CHOOSE x \in K : \A y \in K : ~Less(y, x)
         IN  <<m>> \o SortKeys(K \ {m})

RECURSIVE Flatten(_)
Flatten(ss) == IF ss = <<>> THEN <<>> ELSE Head(ss) \o Flatten(Tail(ss))

\* pd.merge(left[[Time, sensor]], right[[Time, Hydrograph]], on=Time, how='outer'):
\* per key, every pair of a left and a right row, or the unmatched rows of
\* one side with the other side's column missing; keys in ascending order
merge_outer(left, right, sensor) ==
    LET keys == SortKeys({left[i].t : i \in 1..Len(left)}
                          \cup {right[j].t : j \in 1..Len(right)})
        group(key) ==
            LET lk == SelectSeq(left, LAMBDA r : r.t = key)
                rk == SelectSeq(right, LAMBDA r : r.t = key)
            IN  IF rk = <<>>
                THEN MapSeq(lk, LAMBDA l : [t |-> key, s |-> l.s[sensor], h |-> NaN])
                ELSE IF lk = <<>>
                THEN MapSeq(rk, LAMBDA r : [t |-> key, s |-> FNaN, h |-> r.h])
                ELSE Flatten(MapSeq(lk, LAMBDA l :
                         MapSeq(rk, LAMBDA r :
                             [t |-> key, s |-> l.s[sensor], h |-> r.h])))
    IN  Flatten(MapSeq(keys, group))

\* stable insertion of one row by Time (Minutes), missing times last
RECURSIVE InsertByTime(_, _)
InsertByTime(sorted, r) ==
    IF sorted = <<>> THEN <<r>>
    ELSE LET last == sorted[Len(sorted)]
         IN  IF FLess(r.tmin, last.tmin) \/ (notna(r.tmin) /\ ~notna(last.tmin))
             THEN Append(InsertByTime(SubSeq(sorted, 1, Len(sorted) - 1), r), last)
             ELSE Append(sorted, r)

\* mutant: the sort is descending (ascending=False)
RECURSIVE sort_values_desc(_)
sort_values_desc(rows) ==
    IF rows = <<>> THEN <<>>
    ELSE LET m == CHOOSE i \in 1..Len(rows) :
                      \A j \in 1..Len(rows) : ~FLess(rows[i].tmin, rows[j].tmin)
         IN  <<rows[m]>> \o sort_values_desc(SubSeq(rows, 1, m - 1)
                                               \o SubSeq(rows, m + 1, Len(rows)))

\* merged.sort_values('Time (Minutes)', inplace=True)
RECURSIVE sort_values(_)
sort_values(rows) ==
    IF rows = <<>> THEN <<>>
    ELSE InsertByTime(sort_values(SubSeq(rows, 1, Len(rows) - 1)), rows[Len(rows)])

Count(s, P(_)) == Len(SelectSeq(s, P))

NoMetrics(n) ==
    [original_rows |-> n, invalid_rows |-> 0, zero_values |-> 0,
     null_values |-> 0, valid_rows |-> 0]

\* SeatekDataProcessor.process_data(river_mile, year, sensor) on the table
\* held for that river mile.  Result: raised (an exception left the call),
\* merged (the returned frame), metrics, and the local frames sensor_df,
\* hydro_df0 (the hydrograph view as filtered) and hydro_df (as merged).
\* The steps below follow the statements of the method, each taking the
\* local frames made before it.

\* the metrics and the return of the method
process_return(year_data, processed, sensor, sensor_df, hydro_df0, hydro_df, merged) ==
    [raised |-> FALSE,
     merged |-> merged,
     metrics |-> [original_rows |-> Len(year_data),
                  invalid_rows |-> Len(year_data) - Len(processed),
                  zero_values |-> Count(processed, LAMBDA r : FIsZero(r.s[sensor])),
                  null_values |-> Count(processed, LAMBDA r : ~notna(r.s[sensor])),
                  valid_rows |-> Len(merged)],
     sensor_df |-> sensor_df, hydro_df0 |-> hydro_df0, hydro_df |-> hydro_df]

\* merged['Time (Minutes)'] = merged['Time (Seconds)'] / 60.0 and the sort
minutes_sorted(joined) ==
    sort_values(MapSeq(joined, LAMBDA m :
        [t |-> m.t, s |-> m.s, h |-> m.h, tmin |-> FDiv(float64(m.t), Sixty)]))

\* the merge of the two views
process_merge(year_data, processed, sensor, sensor_df, hydro_df0, hydro_df) ==
    process_return(year_data, processed, sensor, sensor_df, hydro_df0, hydro_df,
                   minutes_sorted(merge_outer(sensor_df, hydro_df, sensor)))

\* if sensor_df.empty and not hydro_df.empty: the hydrograph values are
\* forced to 0
process_views(year_data, processed, sensor, sensor_df, hydro_df0) ==
    process_merge(year_data, processed, sensor, sensor_df, hydro_df0,
                  IF sensor_df = <<>> /\ hydro_df0 # <<>>
                  THEN force_hydro_zero(hydro_df0)
                  ELSE hydro_df0)

\* the two filters.  Without a Hydrograph (Lagged) column hydro_df is
\* pd.DataFrame(), which has no columns: selecting
\* ['Time (Seconds)', 'Hydrograph (Lagged)'] for the merge raises KeyError
process_converted(hasHydro, year_data, processed, sensor) ==
    IF ~hasHydro
    THEN [raised |-> TRUE, merged |-> <<>>, metrics |-> NoMetrics(Len(year_data)),
          sensor_df |-> SelectSeq(processed, LAMBDA r : valid_sensor(r.s[sensor])),
          hydro_df0 |-> <<>>, hydro_df |-> <<>>]
    ELSE process_views(year_data, processed, sensor,
                       SelectSeq(processed, LAMBDA r : valid_sensor(r.s[sensor])),
                       SelectSeq(processed, LAMBDA r : valid_value(r.h)))

\* if year_data.empty: return pd.DataFrame(), metrics; else the conversion
process_year(table, summary, river_mile, sensor, year_data) ==
    IF year_data = <<>>
    THEN [raised |-> FALSE, merged |-> <<>>, metrics |-> NoMetrics(0),
          sensor_df |-> <<>>, hydro_df0 |-> <<>>, hydro_df |-> <<>>]
    ELSE process_converted(table.hasHydro, year_data,
                           convert_to_navd88(year_data, sensor, river_mile, summary),
                           sensor)

process_data(table, summary, river_mile, year, sensor) ==
    process_year(table, summary, river_mile, sensor,
                 SelectSeq(table.rows, LAMBDA r : r.yr = year))

----------------------------------------------------------------------------
\* SpecProc: the processor applied to one table

TimeVals == {Int2Num(0), Int2Num(90)}

\* Year cells of the table under test
YearVals == {Int2Num(1), Int2Num(2)}

HydroVals == {NaN, Int2Num(0), Int2Num(7)}

\* raw sensor cells: missing, a text, -1.58 (for which the formula is 0 in
\* exact arithmetic) and 5
RawVals == {NaN, Str, Num(-158, 100), Int2Num(5)}

\* the river mile of the table under test
ProcRM == Int2Num(54)

\* summary tables: one that lists river mile 54 (twice), one that does not
SummaryChoices ==
    { <<[rm |-> Int2Num(53), y |-> Num(56, 5)]>>,
      <<[rm |-> Int2Num(54), y |-> Int2Num(3)],
        [rm |-> Int2Num(53), y |-> Num(56, 5)],
        [rm |-> Int2Num(54), y |-> Num(21, 2)]>> }

SeqUpTo(S, n) == UNION {[1..k -> S] : k \in 0..n}

ProcRows(hasHydro) ==
    [t : TimeVals, yr : YearVals,
     h : IF hasHydro THEN HydroVals ELSE {NaN},
     s : [{"Sensor_1"} -> RawVals]]

ProcTables ==
    UNION {[hasHydro : {b}, sensors : {<<"Sensor_1">>},
            rows : SeqUpTo(ProcRows(b), MaxRows)] : b \in BOOLEAN}

NoResult ==
    [raised |-> FALSE, merged |-> <<>>, metrics |-> NoMetrics(0),
     sensor_df |-> <<>>, hydro_df0 |-> <<>>, hydro_df |-> <<>>]

NoTable == [hasHydro |-> FALSE, sensors |-> <<>>, rows |-> <<>>]

NoEnv ==
    [logOk |-> FALSE, setupOk |-> FALSE, summary |-> "unread",
     hydroExists |-> FALSE, sheets |-> <<>>, files |-> <<>>, loadOk |-> FALSE]

AppIdle ==
    /\ pc = "off"
    /\ env = NoEnv
    /\ rmData = <<>>
    /\ loadLog = <<>>
    /\ jobs = <<>>
    /\ jobIdx = 0
    /\ cur = NoResult
    /\ visits = <<>>
    /\ outcome = <<>>
    /\ rendered = {}
    /\ openFigs = {}
    /\ written = {}
    /\ dirs = {}
    /\ success_count = 0
    /\ error_count = 0
    /\ runResult = "none"
    /\ exitCode = -1

ProcIdle ==
    /\ ptable = NoTable
    /\ psummary = <<>>
    /\ pstage = "idle"
    /\ psensor = "Sensor_1"
    /\ pyear = Int2Num(0)
    /\ pconv = <<>>
    /\ pres = NoResult

FnIdle ==
    /\ fop = "off"
    /\ fstage = "in"
    /\ fin = <<>>
    /\ fout = <<>>

AnIdle ==
    /\ apc = "off"
    /\ asheets = <<>>
    /\ awritable = {}
    /\ afs = {}
    /\ adirs = {}
    /\ arun = 0
    /\ ajobs = <<>>
    /\ aidx = 0
    /\ alog = <<>>

InitProc ==
    /\ AppIdle
    /\ FnIdle
    /\ AnIdle
    /\ ptable \in ProcTables
    /\ psummary \in SummaryChoices
    /\ pstage = "init"
    /\ psensor = "Sensor_1"
    /\ pyear = Int2Num(0)
    /\ pconv = <<>>
    /\ pres = NoResult

\* processor.convert_to_navd88(data, sensor, river_mile) on the whole table
ProcConvert ==
    /\ pstage = "init"
    /\ pconv' = convert_to_navd88(ptable.rows, psensor, ProcRM, psummary)
    /\ pstage' = "converted"
    /\ UNCHANGED <<ptable, psummary, psensor, pyear, pres, appVars, auxVars>>

\* processor.process_data(river_mile, year, sensor)
ProcProcess(year) ==
    /\ pstage = "converted"
    /\ pyear' = year
    /\ pres' = process_data(ptable, psummary, ProcRM, year, psensor)
    /\ pstage' = "processed"
    /\ UNCHANGED <<ptable, psummary, psensor, pconv, appVars, auxVars>>

NextProc ==
    \/ ProcConvert
    \/ \E year \in YearVals : ProcProcess(year)

SpecProc == InitProc /\ [][NextProc]_vars

----------------------------------------------------------------------------
\* DataLoader (hydrograph_seatek_analysis/data/data_loader.py)

\* _load_summary_data: raises when the file is missing or lacks a required column
load_summary_raises(summary) == summary \in {"missing", "badcols"}

\* mutant: the existence check of the hydrograph file is dropped
load_hydro_raises_unchecked(hydroExists, sheets) ==
    SelectSeq(sheets, LAMBDA k : k = "good") = <<>>

\* _load_hydro_data: the sheets kept are the RM_ sheets that hold the required
\* columns; a sheet without them is skipped; raises when the file is missing
\* or no sheet is kept
hydro_sheets_kept(sheets) == SelectSeq(sheets, LAMBDA k : k = "good")

load_hydro_raises(hydroExists, sheets) ==
    ~hydroExists \/ hydro_sheets_kept(sheets) = <<>>

\* load_all_data: summary first, then hydrograph; any exception is re-raised
load_all_data_raises(summary, hydroExists, sheets) ==
    load_summary_raises(summary) \/ load_hydro_raises(hydroExists, sheets)

----------------------------------------------------------------------------
\* RiverMileData and SeatekDataProcessor.load_data (utils/processor.py)

\* RiverMileData(file_path) then rm_data.load_data(): ValueError for a name
\* that does not parse, for missing required columns, for no sensor column
river_mile_file_raises(f) == ~f.name_ok \/ f.cols # "ok"

\* self.river_mile_data[rm_data.river_mile] = rm_data
dict_set(d, rm, table) ==
    IF \E i \in 1..Len(d) : d[i].rm = rm
    THEN [i \in 1..Len(d) |-> IF d[i].rm = rm THEN [rm |-> rm, table |-> table] ELSE d[i]]
    ELSE Append(d, [rm |-> rm, table |-> table])

\* mutant: the first file that raises ends the loop
RECURSIVE load_files_abort(_)
load_files_abort(files) ==
    IF files = <<>> THEN [data |-> <<>>, log |-> <<>>]
    ELSE LET n == Len(files)
             before == load_files_abort(SubSeq(files, 1, n - 1))
             f == files[n]
         IN  IF river_mile_file_raises(f)
                \/ \E i \in 1..Len(before.log) : before.log[i] = "failed"
             THEN [data |-> before.data, log |-> Append(before.log, "failed")]
             ELSE [data |-> dict_set(before.data, f.rm, f.table),
                   log |-> Append(before.log, "loaded")]

\* the for loop of load_data: a file that raises is logged and skipped
RECURSIVE load_files(_)
load_files(files) ==
    IF files = <<>> THEN [data |-> <<>>, log |-> <<>>]
    ELSE LET n == Len(files)
             before == load_files(SubSeq(files, 1, n - 1))
             f == files[n]
         IN  IF river_mile_file_raises(f)
             THEN [data |-> before.data, log |-> Append(before.log, "failed")]
             ELSE [data |-> dict_set(before.data, f.rm, f.table),
                   log |-> Append(before.log, "loaded")]

\* SeatekDataProcessor(data_dir=..., summary_data=..., config=...) as
\* Application.load_data calls it.  The class app.py imports
\* (hydrograph_seatek_analysis/data/processor.py) is not among the sources;
\* its tests construct it with these three arguments without an error.  The
\* class of utils/processor.py, whose methods are modelled below, has no
\* config parameter.
package_processor_init_raises == FALSE

\* SeatekDataProcessor.load_data raises only when no RM_*.xlsx file is found
processor_load_raises(files) == files = <<>>

----------------------------------------------------------------------------
\* ChartGenerator (hydrograph_seatek_analysis/visualization/chart_generator.py)

\* the module imports logging, dataclass, typing, pyplot, pandas, seaborn,
\* Figure and Config: the name Path used by save_chart is not among them
PathImported == FALSE

\* save_chart(fig, output_path): inside try, Path(output_path), mkdir of the
\* parent, savefig, plt.close(fig), return True; any exception returns False
\* with nothing after the failing statement done
save_chart(writable) ==
    IF ~PathImported
    THEN [ok |-> FALSE, mkdir |-> FALSE, wrote |-> FALSE, closed |-> FALSE]
    ELSE IF ~writable
    THEN [ok |-> FALSE, mkdir |-> FALSE, wrote |-> FALSE, closed |-> FALSE]
    ELSE [ok |-> TRUE, mkdir |-> TRUE, wrote |-> TRUE, closed |-> TRUE]

----------------------------------------------------------------------------
\* Application (hydrograph_seatek_analysis/app.py)

\* rm_data.data['Year'].unique(), as a set
year_values(table) == {table.rows[i].yr : i \in 1..Len(table.rows)}

\* the for statement of app.py 147 is reached (the table has a sensor column)
\* and sorted(rm_data.data['Year'].unique()) raises TypeError: '<' is not
\* supported between a str and a number
sorted_raises(table) ==
    /\ table.sensors # <<>>
    /\ \E a \in year_values(table) : a.k = "str"
    /\ \E b \in year_values(table) : b.k # "str"

\* sorted(rm_data.data['Year'].unique()) when it does not raise
years_of(table) == SortKeys(year_values(table))

\* the datasets of river_mile_data.values() whose loop bodies are reached:
\* those before the first one for which sorted() raises
RECURSIVE datasets_reached(_)
datasets_reached(data) ==
    IF data = <<>> THEN <<>>
    ELSE IF sorted_raises(Head(data).table) THEN <<>>
    ELSE <<Head(data)>> \o datasets_reached(Tail(data))

\* whether the for statement of app.py 147 raises during the loops, which
\* the outer except of process_data catches
loops_raise(data) == \E i \in 1..Len(data) : sorted_raises(data[i].table)

\* the loop bodies the three nested for loops of process_data reach, in
\* iteration order
job_list(data) ==
    Flatten(MapSeq(datasets_reached(data), LAMBDA e :
        Flatten(MapSeq(e.table.sensors, LAMBDA sensor :
            MapSeq(years_of(e.table), LAMBDA year :
                [rm |-> e.rm, sensor |-> sensor, year |-> year])))))

\* Text is a sequence of characters.  A character is a one-character
\* string, or, for one that a string cannot hold, the name of its code point
\* ("U+000B").
DigitChars == <<"0", "1", "2", "3", "4", "5", "6", "7", "8", "9">>

\* str(n) for an integer n >= 0
RECURSIVE Digits(_)
Digits(n) ==
    IF n < 10 THEN <<DigitChars[n + 1]>>
    ELSE Append(Digits(n \div 10), DigitChars[(n % 10) + 1])

\* a natural number below Base^2 from its digits
BigToNat(a) == BigDigit(a, 1) + BigDigit(a, 2) * Base

\* q, or q + 1 when the part dropped is above one half (c > 0) or is one
\* half (c = 0) and q is odd
half_even(q, c) == IF c > 0 \/ (c = 0 /\ q % 2 = 1) THEN q + 1 ELSE q

\* n / 2^z rounded to an integer, ties to even; q is n \div 2^z
tenths_rounded(n, z, q) ==
    half_even(BigToNat(q), BigCmp(BigShl(BigSub(n, BigShl(q, z)), 1), BigShl(<<1>>, z)))

\* ten times m * 2^e rounded to an integer, ties to even
tenths_of(m, e) ==
    IF e >= 0 THEN BigToNat(BigShl(BigMulSmall(m, 10), e))
    ELSE tenths_rounded(BigMulSmall(m, 10), -e, BigShr(BigMulSmall(m, 10), -e))

\* the text of a sign and a number of tenths
tenths_text(s, tenths) ==
    (IF s = 1 THEN <<"-">> ELSE <<>>)
    \o Digits(tenths \div 10) \o <<".">> \o <<DigitChars[(tenths % 10) + 1]>>

\* f"{x:.1f}" for a finite double x below 10^8: the value of the double,
\* not that of the literal it was read from, rounded to tenths
format_1f(x) == tenths_text(x.s, tenths_of(x.m, x.e))

\* the text the tables' non-numeric string has
StrText == <<"x">>

\* str(year) for a Year cell: a numpy integer or a string
year_text(year) == IF year.k = "str" THEN StrText ELSE Digits(year.n)

\* the characters of the column names the tables use
Spelling(name) ==
    CASE name = "Sensor_1" -> <<"S", "e", "n", "s", "o", "r", "_", "1">>
      [] name = "Sensor_2" -> <<"S", "e", "n", "s", "o", "r", "_", "2">>
      [] name = "Sensor_A/B" -> <<"S", "e", "n", "s", "o", "r", "_", "A", "/", "B">>
      [] name = "Sensor_A_B" -> <<"S", "e", "n", "s", "o", "r", "_", "A", "_", "B">>

\* the characters the class [\w\-\.\s] of a str pattern matches: the ASCII
\* ones, and of the Unicode word and space characters a letter (U+00E9), a
\* digit (U+0663) and two spaces (U+0085, U+00A0)
KeptChars ==
    {"a", "b", "c", "d", "e", "f", "g", "h", "i", "j", "k", "l", "m",
     "n", "o", "p", "q", "r", "s", "t", "u", "v", "w", "x", "y", "z",
     "A", "B", "C", "D", "E", "F", "G", "H", "I", "J", "K", "L", "M",
     "N", "O", "P", "Q", "R", "S", "T", "U", "V", "W", "X", "Y", "Z",
     "0", "1", "2", "3", "4", "5", "6", "7", "8", "9",
     "_", "-", ".", " ", "\t", "\n", "\r", "\f",
     "U+000B", "U+001C", "U+001D", "U+001E", "U+001F",
     "U+0085", "U+00A0", "U+00E9", "U+0663"}

\* mutant: runs of dots are left as they are
sub_dot_runs_kept(text) == text

\* re.sub(r'\.{2,}', '_', text): every maximal run of two or more dots
\* becomes one underscore
RECURSIVE sub_dot_runs(_)
sub_dot_runs(text) ==
    IF text = <<>> THEN <<>>
    ELSE IF Head(text) # "." THEN <<Head(text)>> \o sub_dot_runs(Tail(text))
    ELSE LET run == CHOOSE n \in 1..Len(text) :
                        /\ \A i \in 1..n : text[i] = "."
                        /\ (n = Len(text) \/ text[n + 1] # ".")
         IN  (IF run >= 2 THEN <<"_">> ELSE <<".">>)
             \o sub_dot_runs(SubSeq(text, run + 1, Len(text)))

\* text.strip('. ')
strip_dots_spaces(text) ==
    LET keep == {i \in 1..Len(text) : text[i] \notin {".", " "}}
    IN  IF keep = {} THEN <<>>
        ELSE SubSeq(text, CHOOSE i \in keep : \A j \in keep : i <= j,
                          CHOOSE i \in keep : \A j \in keep : j <= i)

\* str(filename) for a filename that is not a string: an int or None.
\* A filename is [kind, text, value].
str_of(filename) ==
    CASE filename.kind = "str" -> filename.text
      [] filename.kind = "int" -> Digits(filename.value)
      [] filename.kind = "none" -> <<"N", "o", "n", "e">>

\* Application._sanitize_filename on a text
sanitize_filename(filename) ==
    strip_dots_spaces(sub_dot_runs(
        MapSeq(filename, LAMBDA c : IF c \in KeptChars THEN c ELSE "_")))

\* output_dir / f"RM_{river_mile:.1f}" / f"Year_{safe_year}_{safe_sensor}.png"
output_path(job) ==
    [dir |-> <<"R", "M", "_">> \o format_1f(float64(job.rm)),
     file |-> <<"Y", "e", "a", "r", "_">> \o sanitize_filename(year_text(job.year))
              \o <<"_">> \o sanitize_filename(Spelling(job.sensor))
              \o <<".", "p", "n", "g">>]

\* where the loop goes after the body of job idx ended (normally, by
\* continue, or in the except clause): the next job, or the end of the loops
next_pc(idx, n) == IF idx < n THEN "job" ELSE "finish"

next_idx(idx, n) == IF idx < n THEN idx + 1 ELSE idx

\* the except clause of the loop body: count the error and continue
after_exception(idx, n) == [pc |-> next_pc(idx, n), idx |-> next_idx(idx, n)]

\* mutant: an empty merged table is not skipped
skip_job_never(merged) == FALSE

\* if processed_data.empty: continue
skip_job(merged) == Len(merged) = 0

\* mutant: process_data reports success whatever the error count
process_data_result_true(errors) == "true"

\* return error_count == 0
process_data_result(errors) == IF errors = 0 THEN "true" ELSE "false"

----------------------------------------------------------------------------
\* Spec: inputs the run can find

SummaryKinds == {"missing", "badcols", "ok"}

\* sheets of the hydrograph workbook: "other" (name not RM_*), "bad" (an RM_
\* sheet without Time (Seconds) / Year), "good"
SheetChoices ==
    { <<>>, <<"bad">>, <<"other">>, <<"good">>, <<"bad", "good">>, <<"other", "bad">> }

\* the summary table of a valid Data_Summary.xlsx
AppSummary ==
    <<[rm |-> Int2Num(54), y |-> Num(21, 2)], [rm |-> Int2Num(53), y |-> Num(56, 5)]>>

Row1(t, yr, h, s1) ==
    [t |-> Int2Num(t), yr |-> Int2Num(yr), h |-> h, s |-> [x \in {"Sensor_1"} |-> s1]]

Row2(t, yr, h, s1, s2) ==
    [t |-> Int2Num(t), yr |-> Int2Num(yr), h |-> h,
     s |-> [x \in {"Sensor_1", "Sensor_2"} |-> IF x = "Sensor_1" THEN s1 ELSE s2]]

\* year 1 merges to two rows, year 2 to one row
TableA ==
    [hasHydro |-> TRUE, sensors |-> <<"Sensor_1">>,
     rows |-> << Row1(0, 1, Int2Num(7), Int2Num(5)),
                 Row1(90, 1, NaN, Int2Num(5)),
                 Row1(0, 2, Int2Num(0), Int2Num(5)) >>]

\* Sensor_1 merges to no row, Sensor_2 to two rows (times out of order)
TableB ==
    [hasHydro |-> TRUE, sensors |-> <<"Sensor_1", "Sensor_2">>,
     rows |-> << Row2(90, 1, Int2Num(0), NaN, Int2Num(5)),
                 Row2(0, 1, NaN, Str, Int2Num(0)) >>]

\* no Hydrograph (Lagged) column
TableC ==
    [hasHydro |-> FALSE, sensors |-> <<"Sensor_1">>,
     rows |-> << Row1(0, 1, NaN, Int2Num(5)) >>]

\* two sensor columns whose names differ in one character, one row each
TableD ==
    [hasHydro |-> TRUE, sensors |-> <<"Sensor_A/B", "Sensor_A_B">>,
     rows |-> << [t |-> Int2Num(0), yr |-> Int2Num(1), h |-> Int2Num(7),
                  s |-> [x \in {"Sensor_A/B", "Sensor_A_B"} |-> Int2Num(5)]] >>]

\* a Year column that holds the number 1 and a text
TableE ==
    [hasHydro |-> TRUE, sensors |-> <<"Sensor_1">>,
     rows |-> << Row1(0, 1, Int2Num(7), Int2Num(5)),
                 [Row1(90, 1, Int2Num(7), Int2Num(5)) EXCEPT !.yr = Str] >>]

AppTables == {TableA, TableB, TableC}

\* RM_54.xlsx and RM_54.02.xlsx
AppRiverMiles == {Int2Num(54), Num(5402, 100)}

\* files matched by RM_*.xlsx: a name whose river mile does not parse, a file
\* without the required columns, a file without sensor columns, a valid file,
\* a file whose Year column mixes numbers and text, RM_0.05.xlsx and
\* RM_-5.xlsx
FileChoices ==
    { [name_ok |-> FALSE, rm |-> NaN, cols |-> "ok", table |-> TableA],
      [name_ok |-> TRUE, rm |-> Int2Num(54), cols |-> "nocols", table |-> NoTable],
      [name_ok |-> TRUE, rm |-> Int2Num(54), cols |-> "nosensors", table |-> NoTable] }
    \cup [name_ok : {TRUE}, rm : AppRiverMiles, cols : {"ok"}, table : AppTables]
    \cup {[name_ok |-> TRUE, rm |-> Int2Num(54), cols |-> "ok", table |-> TableD],
          [name_ok |-> TRUE, rm |-> Int2Num(54), cols |-> "ok", table |-> TableE],
          [name_ok |-> TRUE, rm |-> Num(5, 100), cols |-> "ok", table |-> TableA],
          [name_ok |-> TRUE, rm |-> Int2Num(-5), cols |-> "ok", table |-> TableA]}

NoOutcome == [st |-> "none", rows |-> 0, writable |-> FALSE]

Init ==
    /\ ProcIdle
    /\ FnIdle
    /\ AnIdle
    /\ pc = "main"
    /\ env = NoEnv
    /\ rmData = <<>>
    /\ loadLog = <<>>
    /\ jobs = <<>>
    /\ jobIdx = 0
    /\ cur = NoResult
    /\ visits = <<>>
    /\ outcome = <<>>
    /\ rendered = {}
    /\ openFigs = {}
    /\ written = {}
    /\ dirs = {}
    /\ success_count = 0
    /\ error_count = 0
    /\ runResult = "none"
    /\ exitCode = -1

jobVars == <<jobs, jobIdx, cur, visits, outcome, rendered, openFigs, written,
             dirs, success_count, error_count>>

\* main(): logging set-up inside the try; an exception returns 1
MainStart ==
    /\ pc = "main"
    /\ \E logOk \in BOOLEAN :
         /\ env' = [env EXCEPT !.logOk = logOk]
         /\ IF logOk
            THEN pc' = "setup" /\ exitCode' = exitCode
            ELSE pc' = "exit" /\ exitCode' = 1
    /\ UNCHANGED <<procVars, auxVars, rmData, loadLog, jobVars, runResult>>

\* Application.run: if not self.setup(): return False
Setup ==
    /\ pc = "setup"
    /\ \E ok \in BOOLEAN :
         /\ env' = [env EXCEPT !.setupOk = ok]
         /\ IF ok
            THEN pc' = "load" /\ runResult' = runResult
            ELSE pc' = "ret" /\ runResult' = "false"
    /\ UNCHANGED <<procVars, auxVars, rmData, loadLog, jobVars, exitCode>>

\* Application.run: if not self.load_data(): return False.  load_data calls
\* load_all_data, builds the processor and calls processor.load_data; any
\* exception makes it return False
LoadData ==
    /\ pc = "load"
    /\ \E summary \in SummaryKinds, hydroExists \in BOOLEAN, sheets \in SheetChoices,
          files \in SeqUpTo(FileChoices, MaxFiles) :
         /\ load_all_data_raises(summary, hydroExists, sheets) => files = <<>>
         /\ env' = [env EXCEPT !.summary = summary, !.hydroExists = hydroExists,
                               !.sheets = sheets, !.files = files,
                               !.loadOk = ~(load_all_data_raises(summary, hydroExists, sheets)
                                            \/ package_processor_init_raises
                                            \/ processor_load_raises(files))]
         /\ IF load_all_data_raises(summary, hydroExists, sheets)
               \/ package_processor_init_raises
               \/ processor_load_raises(files)
            THEN /\ pc' = "ret"
                 /\ runResult' = "false"
                 /\ UNCHANGED <<rmData, loadLog>>
            ELSE /\ pc' = "process"
                 /\ runResult' = runResult
                 /\ rmData' = load_files(files).data
                 /\ loadLog' = load_files(files).log
    /\ UNCHANGED <<procVars, auxVars, jobVars, exitCode>>

\* Application.process_data up to the first loop body.  The for statement
\* of the years is evaluated per dataset and sensor: when sorted() raises
\* for a dataset, the loops end there ("finish" with loops_raise), with no
\* loop body reached when that dataset is the first.
ProcessStart ==
    /\ pc = "process"
    /\ jobs' = job_list(rmData)
    /\ outcome' = [i \in 1..Len(jobs') |-> NoOutcome]
    /\ success_count' = 0
    /\ error_count' = 0
    /\ IF jobs' = <<>>
       THEN pc' = "finish" /\ jobIdx' = 0
       ELSE pc' = "job" /\ jobIdx' = 1
    /\ UNCHANGED <<procVars, auxVars, env, rmData, loadLog, cur, visits, rendered,
                   openFigs, written, dirs, runResult, exitCode>>

table_of(data, rm) == (CHOOSE e \in {data[i] : i \in 1..Len(data)} : e.rm = rm).table

\* loop body, first part, after self.processor.process_data(...) returned
\* res or raised: the except clause, or the empty check
JobProcessed(job, n, res) ==
    /\ visits' = Append(visits, job)
    /\ cur' = res
    /\ IF res.raised
       THEN /\ error_count' = error_count + 1
            /\ outcome' = [outcome EXCEPT ![jobIdx].st = "raised"]
            /\ pc' = after_exception(jobIdx, n).pc
            /\ jobIdx' = after_exception(jobIdx, n).idx
       ELSE IF skip_job(res.merged)
       THEN /\ error_count' = error_count
            /\ outcome' = [outcome EXCEPT ![jobIdx].st = "skipped"]
            /\ pc' = next_pc(jobIdx, n)
            /\ jobIdx' = next_idx(jobIdx, n)
       ELSE /\ error_count' = error_count
            /\ outcome' = [outcome EXCEPT ![jobIdx].rows = Len(res.merged)]
            /\ pc' = "render"
            /\ jobIdx' = jobIdx

\* loop body, first part: self.processor.process_data(...) and the empty check
JobProcess ==
    /\ pc = "job"
    /\ JobProcessed(jobs[jobIdx], Len(jobs),
                    process_data(table_of(rmData, jobs[jobIdx].rm), AppSummary,
                                 jobs[jobIdx].rm, jobs[jobIdx].year, jobs[jobIdx].sensor))
    /\ UNCHANGED <<procVars, auxVars, env, rmData, loadLog, jobs, rendered, openFigs,
                   written, dirs, success_count, runResult, exitCode>>

\* loop body, second part: chart_generator.create_chart(...).  create_chart
\* returns the figure, or on any exception closes all figures and returns None
JobCreateChart ==
    /\ pc = "render"
    /\ rendered' = rendered \cup {jobIdx}
    /\ \E drawn \in BOOLEAN :
         IF drawn
         THEN /\ openFigs' = openFigs \cup {jobIdx}
              /\ pc' = "save"
              /\ UNCHANGED <<jobIdx, outcome, error_count>>
         ELSE /\ openFigs' = {}
              /\ error_count' = error_count + 1
              /\ outcome' = [outcome EXCEPT ![jobIdx].st = "nochart"]
              /\ pc' = next_pc(jobIdx, Len(jobs))
              /\ jobIdx' = next_idx(jobIdx, Len(jobs))
    /\ UNCHANGED <<procVars, auxVars, env, rmData, loadLog, jobs, cur, visits, written,
                   dirs, success_count, runResult, exitCode>>

\* loop body, third part: chart_generator.save_chart(chart, output_path)
JobSaveChart ==
    /\ pc = "save"
    /\ \E writable \in BOOLEAN :
         LET r == save_chart(writable)
             path == output_path(jobs[jobIdx])
         IN  /\ dirs' = IF r.mkdir THEN dirs \cup {path.dir} ELSE dirs
             /\ written' = IF r.wrote THEN written \cup {path} ELSE written
             /\ openFigs' = IF r.closed THEN openFigs \ {jobIdx} ELSE openFigs
             /\ success_count' = IF r.ok THEN success_count + 1 ELSE success_count
             /\ error_count' = IF r.ok THEN error_count ELSE error_count + 1
             /\ outcome' = [outcome EXCEPT
                              ![jobIdx].st = IF r.ok THEN "saved" ELSE "savefail",
                              ![jobIdx].writable = writable]
    /\ pc' = next_pc(jobIdx, Len(jobs))
    /\ jobIdx' = next_idx(jobIdx, Len(jobs))
    /\ UNCHANGED <<procVars, auxVars, env, rmData, loadLog, jobs, cur, visits, rendered,
                   runResult, exitCode>>

\* the loops of Application.process_data ended normally: the summary line
\* and return error_count == 0 (app.py 199-200), then Application.run
ProcessFinish ==
    /\ pc = "finish"
    /\ ~loops_raise(rmData)
    /\ runResult' = process_data_result(error_count)
    /\ pc' = "ret"
    /\ UNCHANGED <<procVars, auxVars, env, rmData, loadLog, jobVars, exitCode>>

\* the loops of Application.process_data ended by the TypeError of sorted()
\* at app.py 147, outside the try of the loop body: the outer except
\* (app.py 202-204) logs it and returns False with the jobs of that dataset
\* and of the later ones unvisited, then Application.run returns False
ProcessAbort ==
    /\ pc = "finish"
    /\ loops_raise(rmData)
    /\ runResult' = "false"
    /\ pc' = "ret"
    /\ UNCHANGED <<procVars, auxVars, env, rmData, loadLog, jobVars, exitCode>>

\* main(): return 0 if success else 1
MainReturn ==
    /\ pc = "ret"
    /\ exitCode' = IF runResult = "true" THEN 0 ELSE 1
    /\ pc' = "exit"
    /\ UNCHANGED <<procVars, auxVars, env, rmData, loadLog, jobVars, runResult>>

Next ==
    \/ MainStart
    \/ Setup
    \/ LoadData
    \/ ProcessStart
    \/ JobProcess
    \/ JobCreateChart
    \/ JobSaveChart
    \/ ProcessFinish
    \/ ProcessAbort
    \/ MainReturn

Spec == Init /\ [][Next]_vars

----------------------------------------------------------------------------
\* Sums and means of numpy

\* the sum numpy's add.reduce makes of fewer than 8 numbers, one or more,
\* from the first to the last
RECURSIVE sum_in_order(_)
sum_in_order(terms) ==
    IF Len(terms) = 1 THEN terms[1]
    ELSE FAdd(sum_in_order(SubSeq(terms, 1, Len(terms) - 1)), terms[Len(terms)])

\* r[j] += a[i + j] for j in 0..7, for the blocks of eight that start at
\* positions 9, 17, ... and end by position last
RECURSIVE sum_blocks(_, _, _, _)
sum_blocks(a, r, i, last) ==
    IF i + 7 > last THEN r
    ELSE sum_blocks(a, [j \in 1..8 |-> FAdd(r[j], a[i + j - 1])], i + 8, last)

\* ((r[0] + r[1]) + (r[2] + r[3])) + ((r[4] + r[5]) + (r[6] + r[7]))
RECURSIVE sum_pairs(_)
sum_pairs(r) ==
    IF Len(r) = 1 THEN r[1]
    ELSE sum_pairs([j \in 1..(Len(r) \div 2) |-> FAdd(r[2 * j - 1], r[2 * j])])

\* n2 = n / 2; n2 -= n2 % 8
half_in_eights(n) == (n \div 2) - ((n \div 2) % 8)

\* pairwise_sum of numpy (loops_utils.h) on the numbers of a, one or more:
\* fewer than 8 are added in order; up to 128 are added into eight running
\* sums, these in pairs, then the numbers left over in order; more are
\* split in two
RECURSIVE pairwise_sum(_)
pairwise_sum(a) ==
    IF Len(a) > 128
    THEN FAdd(pairwise_sum(SubSeq(a, 1, half_in_eights(Len(a)))),
              pairwise_sum(SubSeq(a, half_in_eights(Len(a)) + 1, Len(a))))
    ELSE sum_in_order(
             IF Len(a) < 8 THEN a
             ELSE <<sum_pairs(sum_blocks(a, SubSeq(a, 1, 8), 9, Len(a) - (Len(a) % 8)))>>
                  \o SubSeq(a, Len(a) - (Len(a) % 8) + 1, Len(a)))

\* np.sum(a): 0.0 for an empty array
sum(a) == IF a = <<>> THEN FZero(0) ELSE pairwise_sum(a)

\* np.mean(a): np.sum(a) / len(a), NaN for an empty array
mean(a) == FDiv(sum(a), FInt(Len(a)))

\* a - m for an array a and a number m
minus(a, m) == [i \in 1..Len(a) |-> FSub(a[i], m)]

\* a * b for two arrays of the same length
times(a, b) == [i \in 1..Len(a) |-> FMul(a[i], b[i])]

----------------------------------------------------------------------------
\* DataLoader._validate_columns (data_loader.py)

\* mutant: only the first missing column is reported
missing_cols_first(columns, required_cols) ==
    LET m == SelectSeq(required_cols, LAMBDA col : col \notin columns)
    IN  IF m = <<>> THEN <<>> ELSE <<m[1]>>

\* missing_cols = [col for col in required_cols if col not in df.columns]
missing_cols(columns, required_cols) ==
    SelectSeq(required_cols, LAMBDA col : col \notin columns)

\* raise ValueError(f"Missing required columns in {context}: {missing_cols}")
\* when missing_cols is not empty; the message is kept as its two parts
validate_columns(columns, required_cols, context) ==
    LET m == missing_cols(columns, required_cols)
    IN  IF m # <<>>
        THEN [raised |-> TRUE, context |-> context, columns |-> m]
        ELSE [raised |-> FALSE, context |-> "", columns |-> <<>>]

----------------------------------------------------------------------------
\* validate_numeric_data (scripts/updated_visualizer.py, src/utils/utils.py:
\* the two bodies are the same)

\* mutant: the (data > 0) test is dropped
validate_numeric_data_keeps_negative(data) ==
    SelectSeq(data, LAMBDA c : /\ notna(c)
                               /\ ne(c, Int2Num(0))
                               /\ ne(c, Inf)
                               /\ ne(c, NegInf))

\* data[notna & (data != 0) & (data > 0) & (data != inf) & (data != -inf)]
validate_numeric_data(data) ==
    SelectSeq(data, LAMBDA c : /\ notna(c)
                               /\ ne(c, Int2Num(0))
                               /\ gt_zero(c)
                               /\ ne(c, Inf)
                               /\ ne(c, NegInf))

----------------------------------------------------------------------------
\* calculate_correlation / interpret_correlation
\* (scripts/correlation-explanation.py) and interpret_correlation of
\* scripts/updated_visualizer.py

\* the literals 0.9, 0.7, 0.5 and 0.3
Thresholds == <<FNum(9, 10), FNum(7, 10), FNum(5, 10), FNum(3, 10)>>

\* the if / elif chain on abs_corr
strength_from(abs_corr) ==
    IF FGeq(abs_corr, Thresholds[1]) THEN "Very strong"
    ELSE IF FGeq(abs_corr, Thresholds[2]) THEN "Strong"
    ELSE IF FGeq(abs_corr, Thresholds[3]) THEN "Moderate"
    ELSE IF FGeq(abs_corr, Thresholds[4]) THEN "Weak"
    ELSE "Very weak or no"

\* abs_corr = abs(correlation), then the chain
strength_of(correlation) == strength_from(FAbs(correlation))

\* "positive" if correlation >= 0 else "negative" (NaN >= 0 is false)
direction_of(correlation) ==
    IF FGeq(correlation, FZero(0)) THEN "positive" ELSE "negative"

\* correlation-explanation.py: f"{strength} {direction} correlation"
interpret_correlation(correlation) ==
    <<strength_of(correlation), direction_of(correlation), "correlation">>

\* updated_visualizer.py: f"{strength} {direction} relationship"
visualizer_interpret_correlation(correlation) ==
    <<strength_of(correlation), direction_of(correlation), "relationship">>

\* interpretation = interpret_correlation(correlation);
\* return correlation, interpretation
correlation_interpreted(correlation) ==
    [coef |-> correlation, interp |-> interpret_correlation(correlation)]

\* if denominator == 0: return 0.0, "No correlation ...";
\* correlation = numerator / denominator
correlation_from(numerator, denominator) ==
    IF FEq(denominator, FZero(0))
    THEN [coef |-> FZero(0),
          interp |-> <<"No correlation (insufficient variation in data)">>]
    ELSE correlation_interpreted(FDiv(numerator, denominator))

\* numerator = np.sum(x_dev * y_dev);
\* denominator = np.sqrt(np.sum(x_dev**2) * np.sum(y_dev**2))
correlation_of(x_dev, y_dev) ==
    correlation_from(sum(times(x_dev, y_dev)),
                     FSqrt(FMul(sum(times(x_dev, x_dev)), sum(times(y_dev, y_dev)))))

\* calculate_correlation(hydrograph_data, sensor_data) on two arrays of
\* doubles of the same length: x_dev = x - np.mean(x), y_dev = y - np.mean(y),
\* then the lines above; every operation rounds as numpy's does
calculate_correlation(hydrograph_data, sensor_data) ==
    correlation_of(minus(hydrograph_data, mean(hydrograph_data)),
                   minus(sensor_data, mean(sensor_data)))

----------------------------------------------------------------------------
\* create_visualization (scripts/updated_visualizer.py).  A frame is its set
\* of column names and its rows (column name -> cell); a dict is the
\* sequence of its items [k, v].

dict_has(d, key) == \E i \in 1..Len(d) : d[i].k = key

dict_at(d, key) == d[CHOOSE i \in 1..Len(d) : d[i].k = key].v

\* np.dot of two rows of the same length n >= 1, taken as the sum of the
\* products in index order
dot(a, b) == sum_in_order(times(a, b))

\* np.clip(c, -1, 1): NaN stays NaN
clip(c) ==
    IF FLess(c, FInt(-1)) THEN FInt(-1)
    ELSE IF FLess(FInt(1), c) THEN FInt(1)
    ELSE c

\* an entry of np.cov: c = dot(X, X_T); c *= np.true_divide(1, fact)
cov(X, Y, scale) == FMul(dot(X, Y), scale)

\* c /= stddev[:, None]; c /= stddev[None, :]; np.clip(c, -1, 1), for the
\* entry [0, 1], with stddev = sqrt(diag(c))
corrcoef_of(X, Y, scale) ==
    clip(FDiv(FDiv(cov(X, Y, scale), FSqrt(cov(X, X, scale))),
              FSqrt(cov(Y, Y, scale))))

\* fact = n - ddof with ddof = 1; if fact <= 0: fact = 0.0
cov_fact(n) == IF n - 1 <= 0 THEN FZero(0) ELSE FInt(n - 1)

\* np.corrcoef(a, b)[0, 1] for two arrays of n >= 1 doubles: the rows less
\* their means, the entries of np.cov, divided by the standard deviations
corrcoef(a, b) ==
    corrcoef_of(minus(a, mean(a)), minus(b, mean(b)),
                FDiv(FInt(1), cov_fact(Len(a))))

\* plot_data[a].corr(plot_data[b]) of pandas: np.corrcoef over the rows
\* where both values are present, NaN when no row is left
series_corr(x, y) ==
    LET both == SelectSeq([i \in 1..Len(x) |-> [x |-> x[i], y |-> y[i]]],
                          LAMBDA q : notna(q.x) /\ notna(q.y))
    IN  IF both = <<>> THEN FNaN
        ELSE corrcoef(MapSeq(both, LAMBDA q : float64(q.x)),
                      MapSeq(both, LAMBDA q : float64(q.y)))

\* except Exception as e: raise DataVisualizationError(...)
VizError ==
    [raised |-> TRUE, fig |-> FALSE, correlation |-> FNaN, n_points |-> 0,
     title |-> <<>>]

\* create_visualization(plot_data, rm, year, sensor, column_mappings): the
\* subscripts plot_data['Time_(Hours)'], column_mappings['hydrograph'],
\* plot_data[column_mappings['hydrograph']] and plot_data[sensor] raise
\* KeyError for a missing key; nothing else in the body looks at the number
\* of rows or at the values
create_visualization(plot_data, sensor, column_mappings) ==
    IF "Time_(Hours)" \notin plot_data.columns THEN VizError
    ELSE IF ~dict_has(column_mappings, "hydrograph") THEN VizError
    ELSE IF dict_at(column_mappings, "hydrograph") \notin plot_data.columns THEN VizError
    ELSE IF sensor \notin plot_data.columns THEN VizError
    ELSE LET hydro == dict_at(column_mappings, "hydrograph")
             correlation == series_corr(MapSeq(plot_data.rows, LAMBDA r : r[hydro]),
                                        MapSeq(plot_data.rows, LAMBDA r : r[sensor]))
         IN  [raised |-> FALSE, fig |-> TRUE, correlation |-> correlation,
              n_points |-> Len(plot_data.rows),
              title |-> visualizer_interpret_correlation(correlation)]

----------------------------------------------------------------------------
\* Config / NavdConstants (core/config.py) and the call of convert_to_navd88

\* offset_a: float = 1.9, offset_b: float = 0.32, scale_factor: float = 400 / 30.48
NavdDefaults ==
    [offset_a |-> FNum(19, 10), offset_b |-> FNum(32, 100),
     scale_factor |-> FDiv(FInt(400), FNum(3048, 100))]

\* NavdConstants(**navd_dict): a field not named keeps its default
NavdConstants(navd_dict) ==
    [f \in {"offset_a", "offset_b", "scale_factor"} |->
        IF dict_has(navd_dict, f) THEN dict_at(navd_dict, f) ELSE NavdDefaults[f]]

\* Config.from_dict: navd_dict = config_dict.pop('navd88_constants', {});
\* NavdConstants(**navd_dict) if navd_dict else NavdConstants()
from_dict(config_dict) ==
    LET navd_dict == IF dict_has(config_dict, "navd88_constants")
                     THEN dict_at(config_dict, "navd88_constants") ELSE <<>>
    IN  [navd88_constants |-> IF navd_dict # <<>> THEN NavdConstants(navd_dict)
                              ELSE NavdDefaults]

\* mutant: processed = data, the assignments reach the caller's frame
frame_alias(heap, ref) == [heap |-> heap, ref |-> ref]

\* processed = data.copy(): a new frame object holding the same rows
frame_copy(heap, ref) == [heap |-> Append(heap, heap[ref]), ref |-> Len(heap) + 1]

\* one call processor.convert_to_navd88(data, sensor, river_mile) seen from
\* the caller: frame objects live in a heap, the caller's frame is object 1,
\* the column assignments go to the object processed refers to.  Result:
\* the caller's frame after the call and the frame returned.
convert_call(data, sensor, river_mile, summary) ==
    LET processed == frame_copy(<<data>>, 1)
        heap == [processed.heap EXCEPT ![processed.ref] =
                     convert_to_navd88(processed.heap[processed.ref], sensor,
                                       river_mile, summary)]
    IN  [data |-> heap[1], processed |-> heap[processed.ref]]

----------------------------------------------------------------------------
\* SpecFn: one call of a stand-alone function

MaxLen == 3

\* required-column checks
ColumnCalls ==
    [columns : SUBSET {"Time (Seconds)", "Year", "Value"},
     required_cols : { <<>>, <<"Year">>, <<"Time (Seconds)", "Year">>,
                       <<"Year", "Hydrograph (Lagged)", "Time (Seconds)">> },
     context : {"test", "summary data"}]

FloatVals == {NaN, Int2Num(0), Int2Num(-3), Num(1, 2), Int2Num(5), Inf, NegInf}

NumericCalls == [data : SeqUpTo(FloatVals, MaxLen)]

CorrVals == {FNaN, FInt(0), FInt(5)}

\* x = [1, 2, 3, 4, 5], y = [2, 4, 6, 8, 10]
ExampleCall ==
    [x |-> [i \in 1..5 |-> FInt(i)], y |-> [i \in 1..5 |-> FInt(2 * i)]]

\* x = [0, 0, 1], y = [5, 5, 0]
RoundingCall ==
    [x |-> <<FInt(0), FInt(0), FInt(1)>>, y |-> <<FInt(5), FInt(5), FInt(0)>>]

CorrelationCalls ==
    {ExampleCall, RoundingCall}
    \cup UNION {[x : [1..k -> CorrVals], y : [1..k -> CorrVals]] : k \in 0..MaxLen}

\* NaN, -0.0, and the hundredths next to the thresholds with both signs
InterpretCalls ==
    {[correlation |-> FNaN], [correlation |-> FZero(1)]}
    \cup {[correlation |-> FNum(sg * p, 100)] :
            sg \in {-1, 1}, p \in {0, 29, 30, 49, 50, 69, 70, 89, 90, 100}}

PlotColumns == {"Time_(Hours)", "Hydrograph (Lagged)", "Sensor_1"}

PlotRows ==
    {[c \in PlotColumns |-> IF c = "Time_(Hours)" THEN t
                            ELSE IF c = "Hydrograph (Lagged)" THEN h ELSE v] :
        t \in {Int2Num(1), Int2Num(2)},
        h \in {NaN, Int2Num(10)},
        v \in {Int2Num(0), Int2Num(15), Int2Num(25)}}

MappingChoices ==
    { <<[k |-> "time", v |-> "Time_(Hours)"],
        [k |-> "hydrograph", v |-> "Hydrograph (Lagged)"],
        [k |-> "year", v |-> "Year"]>>,
      <<[k |-> "invalid_key", v |-> "Time_(Hours)"]>>,
      <<[k |-> "hydrograph", v |-> "Discharge"]>> }

VisualizationCalls ==
    [plot_data : [columns : SUBSET PlotColumns, rows : SeqUpTo(PlotRows, MaxRows)],
     sensor : {"Sensor_1", "Invalid_Sensor"},
     column_mappings : MappingChoices]

\* config dictionaries: nothing overridden, one constant, all three
ConfigDicts ==
    { <<>>,
      <<[k |-> "navd88_constants", v |-> <<[k |-> "offset_a", v |-> FInt(2)]>>]>>,
      <<[k |-> "navd88_constants",
         v |-> <<[k |-> "offset_a", v |-> FInt(2)],
                 [k |-> "offset_b", v |-> FNum(4, 10)],
                 [k |-> "scale_factor", v |-> FInt(15)]>>]>> }

ConvRows ==
    [t : TimeVals, yr : {Int2Num(1)}, h : {Int2Num(7)},
     s : {f \in [SensorNames -> RawVals] :
            f["Sensor_1"] # NaN /\ f["Sensor_2"] \in {NaN, Int2Num(5)}}]

ConvertCalls ==
    [config_dict : ConfigDicts, data : SeqUpTo(ConvRows, MaxRows),
     sensor : SensorNames, summary : SummaryChoices]

\* '../../../etc/passwd'
TraversalInput ==
    <<".", ".", "/", ".", ".", "/", ".", ".", "/", "e", "t", "c", "/",
      "p", "a", "s", "s", "w", "d">>

SanitizeChars == {".", "/", "e", " ", "U+00E9"}

\* filenames: short texts, the traversal example, and values that are not
\* strings
SanitizeCalls ==
    {[filename |-> [kind |-> "str", text |-> t, value |-> 0]] :
        t \in SeqUpTo(SanitizeChars, MaxLen + 1) \cup {TraversalInput}}
    \cup {[filename |-> [kind |-> "int", text |-> <<>>, value |-> 2023]],
          [filename |-> [kind |-> "none", text |-> <<>>, value |-> 0]]}

InitFn ==
    /\ ProcIdle
    /\ AppIdle
    /\ AnIdle
    /\ fstage = "in"
    /\ fout = <<>>
    /\ \/ fop = "validate_columns" /\ fin \in ColumnCalls
       \/ fop = "validate_numeric_data" /\ fin \in NumericCalls
       \/ fop = "calculate_correlation" /\ fin \in CorrelationCalls
       \/ fop = "interpret_correlation" /\ fin \in InterpretCalls
       \/ fop = "create_visualization" /\ fin \in VisualizationCalls
       \/ fop = "convert_to_navd88" /\ fin \in ConvertCalls
       \/ fop = "sanitize_filename" /\ fin \in SanitizeCalls

\* DataLoader._validate_columns(df, required_cols, context)
FnValidateColumns ==
    /\ fop = "validate_columns" /\ fstage = "in"
    /\ fout' = validate_columns(fin.columns, fin.required_cols, fin.context)
    /\ fstage' = "out"
    /\ UNCHANGED <<procVars, appVars, anVars, fop, fin>>

\* validate_numeric_data(data)
FnValidateNumeric ==
    /\ fop = "validate_numeric_data" /\ fstage = "in"
    /\ fout' = [data |-> validate_numeric_data(fin.data)]
    /\ fstage' = "out"
    /\ UNCHANGED <<procVars, appVars, anVars, fop, fin>>

\* validate_numeric_data called on what it returned
FnValidateNumericAgain ==
    /\ fop = "validate_numeric_data" /\ fstage = "out"
    /\ fin' = fout
    /\ fout' = [data |-> validate_numeric_data(fout.data)]
    /\ fstage' = "again"
    /\ UNCHANGED <<procVars, appVars, anVars, fop>>

\* calculate_correlation(hydrograph_data, sensor_data)
FnCalculateCorrelation ==
    /\ fop = "calculate_correlation" /\ fstage = "in"
    /\ fout' = calculate_correlation(fin.x, fin.y)
    /\ fstage' = "out"
    /\ UNCHANGED <<procVars, appVars, anVars, fop, fin>>

\* interpret_correlation(correlation) of the two scripts
FnInterpretCorrelation ==
    /\ fop = "interpret_correlation" /\ fstage = "in"
    /\ fout' = [explanation |-> interpret_correlation(fin.correlation),
                visualizer |-> visualizer_interpret_correlation(fin.correlation)]
    /\ fstage' = "out"
    /\ UNCHANGED <<procVars, appVars, anVars, fop, fin>>

\* create_visualization(plot_data, rm, year, sensor, column_mappings)
FnCreateVisualization ==
    /\ fop = "create_visualization" /\ fstage = "in"
    /\ fout' = create_visualization(fin.plot_data, fin.sensor, fin.column_mappings)
    /\ fstage' = "out"
    /\ UNCHANGED <<procVars, appVars, anVars, fop, fin>>

\* config = Config.from_dict(config_dict), then
\* processor.convert_to_navd88(data, sensor, river_mile)
FnConvert ==
    /\ fop = "convert_to_navd88" /\ fstage = "in"
    /\ fout' = [config |-> from_dict(fin.config_dict),
                call |-> convert_call(fin.data, fin.sensor, ProcRM, fin.summary)]
    /\ fstage' = "out"
    /\ UNCHANGED <<procVars, appVars, anVars, fop, fin>>

\* Application._sanitize_filename(filename)
FnSanitize ==
    /\ fop = "sanitize_filename" /\ fstage = "in"
    /\ fout' = sanitize_filename(str_of(fin.filename))
    /\ fstage' = "out"
    /\ UNCHANGED <<procVars, appVars, anVars, fop, fin>>

NextFn ==
    \/ FnValidateColumns
    \/ FnValidateNumeric
    \/ FnValidateNumericAgain
    \/ FnCalculateCorrelation
    \/ FnInterpretCorrelation
    \/ FnCreateVisualization
    \/ FnConvert
    \/ FnSanitize

SpecFn == InitFn /\ [][NextFn]_vars

----------------------------------------------------------------------------
\* DataAnalyzer (src/sensor_visualization_v2.py).  A sheet is [name, table];
\* a table is [hasTime, sensors, rows], a row [yr, s]; an output file is
\* [path, run, idx]: its path and the run and job that wrote it.

\* float(rm_sheet.split('_')[1]); NaN stands for the ValueError of a name
\* whose second part is not a number
sheet_river_mile(name) ==
    CASE name = "RM_54" -> Int2Num(54)
      [] name = "RM_54.0" -> Int2Num(54)
      [] name = "RM_55" -> Int2Num(55)
      [] OTHER -> NaN

\* data["Year"].unique(): the distinct values in order of first appearance
RECURSIVE unique(_)
unique(q) ==
    IF q = <<>> THEN <<>>
    ELSE LET before == unique(SubSeq(q, 1, Len(q) - 1))
         IN  IF \E i \in 1..Len(before) : before[i] = q[Len(q)]
             THEN before ELSE Append(before, q[Len(q)])

\* the calls of _process_year_data one call of process_all_data makes, in
\* order: the sheets in insertion order, per sheet the sensors then the
\* years; a sheet name that does not parse raises and ends the call
RECURSIVE analyzer_jobs(_, _)
analyzer_jobs(sheets, first) ==
    IF sheets = <<>> THEN [jobs |-> <<>>, raised |-> FALSE]
    ELSE IF sheet_river_mile(Head(sheets).name) = NaN
    THEN [jobs |-> <<>>, raised |-> TRUE]
    ELSE LET data == Head(sheets).table
             rest == analyzer_jobs(Tail(sheets), first + 1)
             here == Flatten(MapSeq(data.sensors, LAMBDA sensor :
                         MapSeq(unique(MapSeq(data.rows, LAMBDA r : r.yr)), LAMBDA year :
                             [sheet |-> first,
                              river_mile |-> sheet_river_mile(Head(sheets).name),
                              sensor |-> sensor, year |-> year])))
         IN  [jobs |-> here \o rest.jobs, raised |-> rest.raised]

\* os.path.join(self.output_base_dir, f"RM_{river_mile}", "sensor_charts", sensor)
create_output_dir(river_mile, sensor) == [river_mile |-> river_mile, sensor |-> sensor]

\* os.path.join(output_dir, f"RM_{river_mile}_Year_{year}_{sensor}.png")
analyzer_output_path(river_mile, year, sensor) ==
    [dir |-> create_output_dir(river_mile, sensor),
     file |-> [river_mile |-> river_mile, year |-> year, sensor |-> sensor]]

\* mutant: the existence check is dropped
path_exists_ignored(files, path) == FALSE

\* os.path.exists(output_path)
path_exists(files, path) == \E f \in files : f.path = path

\* year_data[sensor] > 0 raises TypeError: '>' is not supported between a
\* str and an int, when the year's rows hold a text in the sensor column
compare_raises(year_data, sensor) ==
    \E i \in 1..Len(year_data) : year_data[i].s[sensor].k = "str"

\* notna() & (> 0) & (!= inf) on a cell that is not a text
analyzer_valid(c) == notna(c) /\ gt_zero(c) /\ ne(c, Inf)

\* the sensor column of the sheet is of dtype object: one of its cells, in
\* whatever year, is a text
column_is_object(data, sensor) ==
    \E i \in 1..Len(data.rows) : data.rows[i].s[sensor].k = "str"

\* create_visualization raises: KeyError for a table without Time (Seconds)
\* (line 93), TypeError of np.polyfit for a sensor column of dtype object
\* (line 129)
visualization_raises(data, sensor) ==
    ~data.hasTime \/ column_is_object(data, sensor)

\* _process_year_data(river_mile, data, year, sensor) with the output files
\* found and the directories savefig can write into.  The filter raises
\* TypeError for a text among the year's sensor cells, create_visualization
\* raises KeyError for a table without Time (Seconds) and TypeError for a
\* sensor column that holds a text in any year; every exception is caught
\* and False returned.  Result: the return value, whether the output
\* directory was made, create_visualization called, the file written.
process_year_data(files, writable, data, river_mile, year, sensor) ==
    LET year_data == SelectSeq(data.rows, LAMBDA r : r.yr = year)
        valid_data == SelectSeq(year_data, LAMBDA r : analyzer_valid(r.s[sensor]))
        path == analyzer_output_path(river_mile, year, sensor)
        result(rv, made, called, wrote) ==
            [ret |-> rv, mkdir |-> made, rendered |-> called, saved |-> wrote,
             path |-> path]
    IN  IF compare_raises(year_data, sensor) THEN result(FALSE, FALSE, FALSE, FALSE)
        ELSE IF Len(valid_data) < 2 THEN result(FALSE, FALSE, FALSE, FALSE)
        ELSE IF path_exists(files, path) THEN result(TRUE, TRUE, FALSE, FALSE)
        ELSE IF visualization_raises(data, sensor) THEN result(FALSE, TRUE, TRUE, FALSE)
        ELSE IF river_mile \notin writable THEN result(FALSE, TRUE, TRUE, FALSE)
        ELSE result(TRUE, TRUE, TRUE, TRUE)

----------------------------------------------------------------------------
\* SpecAnalyzer: process_all_data called twice on the same workbook

SheetNames == {"RM_54", "RM_54.0", "RM_55", "RM_x"}

ARow(yr, s1) == [yr |-> yr, s |-> [x \in {"Sensor_1"} |-> s1]]

ARow2(yr, s1, s2) ==
    [yr |-> yr, s |-> [x \in {"Sensor_1", "Sensor_2"} |-> IF x = "Sensor_1" THEN s1 ELSE s2]]

\* year 2 first with one valid row, year 1 with two
SheetTableA ==
    [hasTime |-> TRUE, sensors |-> <<"Sensor_1">>,
     rows |-> << ARow(2, Int2Num(5)), ARow(1, Int2Num(5)), ARow(1, Int2Num(7)),
                 ARow(2, Inf) >>]

\* Sensor_1 with two valid rows, Sensor_2 with a zero and a missing value
SheetTableB ==
    [hasTime |-> TRUE, sensors |-> <<"Sensor_1", "Sensor_2">>,
     rows |-> << ARow2(1, Int2Num(5), Int2Num(0)), ARow2(1, Int2Num(7), NaN) >>]

\* no Time (Seconds) column
SheetTableC ==
    [hasTime |-> FALSE, sensors |-> <<"Sensor_1">>,
     rows |-> << ARow(1, Int2Num(5)), ARow(1, Int2Num(7)) >>]

\* year 1 with two valid rows and a text, year 2 with two valid rows: the
\* column is of dtype object
SheetTableD ==
    [hasTime |-> TRUE, sensors |-> <<"Sensor_1">>,
     rows |-> << ARow(1, Int2Num(5)), ARow(1, Str), ARow(1, Int2Num(7)),
                 ARow(2, Int2Num(5)), ARow(2, Int2Num(7)) >>]

SheetTables == {SheetTableA, SheetTableB, SheetTableC, SheetTableD}

\* the RM_ sheets of a workbook: distinct names
Workbooks ==
    {w \in SeqUpTo([name : SheetNames, table : SheetTables], MaxFiles) :
        \A i, j \in 1..Len(w) : i # j => w[i].name # w[j].name}

\* the output files found before the first call: none, or one left by an
\* earlier session
FilesBefore ==
    { {},
      {[path |-> analyzer_output_path(Int2Num(54), 1, "Sensor_1"), run |-> 0, idx |-> 0]} }

InitAn ==
    /\ ProcIdle
    /\ AppIdle
    /\ FnIdle
    /\ apc = "start"
    /\ asheets \in Workbooks
    /\ awritable \in SUBSET {Int2Num(54), Int2Num(55)}
    /\ afs \in FilesBefore
    /\ adirs = {f.path.dir : f \in afs}
    /\ arun = 1
    /\ ajobs = <<>>
    /\ aidx = 0
    /\ alog = <<>>

\* process_all_data is entered
AnStart ==
    /\ apc = "start"
    /\ ajobs' = analyzer_jobs(asheets, 1).jobs
    /\ IF ajobs' = <<>>
       THEN apc' = "end" /\ aidx' = 0
       ELSE apc' = "job" /\ aidx' = 1
    /\ UNCHANGED <<procVars, appVars, fnVars, asheets, awritable, afs, adirs, arun, alog>>

\* one call of _process_year_data
AnJob ==
    /\ apc = "job"
    /\ LET job == ajobs[aidx]
           r == process_year_data(afs, awritable, asheets[job.sheet].table,
                                  job.river_mile, job.year, job.sensor)
           files == IF r.saved
                    THEN {f \in afs : f.path # r.path}
                         \cup {[path |-> r.path, run |-> arun, idx |-> aidx]}
                    ELSE afs
       IN  /\ afs' = files
           /\ adirs' = IF r.mkdir THEN adirs \cup {r.path.dir} ELSE adirs
           /\ alog' = Append(alog,
                  [run |-> arun, idx |-> aidx, path |-> r.path,
                   existed |-> \E f \in afs : f.path = r.path,
                   rendered |-> r.rendered, saved |-> r.saved, ret |-> r.ret,
                   before |-> {f \in afs : f.path = r.path},
                   after |-> {f \in files : f.path = r.path}])
    /\ IF aidx < Len(ajobs)
       THEN apc' = "job" /\ aidx' = aidx + 1
       ELSE apc' = "end" /\ aidx' = aidx
    /\ UNCHANGED <<procVars, appVars, fnVars, asheets, awritable, arun, ajobs>>

\* process_all_data returns or raises; after the first call the second one
\* is made
AnEnd ==
    /\ apc = "end"
    /\ IF arun = 1
       THEN apc' = "start" /\ arun' = 2
       ELSE apc' = "done" /\ arun' = arun
    /\ UNCHANGED <<procVars, appVars, fnVars, asheets, awritable, afs, adirs, ajobs,
                   aidx, alog>>

NextAn ==
    \/ AnStart
    \/ AnJob
    \/ AnEnd

SpecAnalyzer == InitAn /\ [][NextAn]_vars

----------------------------------------------------------------------------
\* Properties of the processor (SpecProc)

TimesOf(rows) == {rows[i].t : i \in 1..Len(rows)}

CountAt(rows, t) == Cardinality({i \in 1..Len(rows) : rows[i].t = t})

\* C3: every timestamp of the sensor view or of the hydrograph view occurs
\* exactly once in the merged table, also when a timestamp occurs on several
\* rows of the year slice, and a merged row holds a sensor (hydrograph) value
\* only if the sensor (hydrograph) view holds that value at that timestamp.
C3_MergeCompleteness ==
    (pstage = "processed" /\ ~pres.raised) =>
        /\ \A t \in TimesOf(pres.sensor_df) \cup TimesOf(pres.hydro_df) :
               CountAt(pres.merged, t) = 1
        /\ \A i \in 1..Len(pres.merged) :
               /\ pres.merged[i].t \in TimesOf(pres.sensor_df) \cup TimesOf(pres.hydro_df)
               /\ notna(pres.merged[i].s) =>
                      \E j \in 1..Len(pres.sensor_df) :
                          /\ pres.sensor_df[j].t = pres.merged[i].t
                          /\ pres.sensor_df[j].s[psensor] = pres.merged[i].s
               /\ notna(pres.merged[i].h) =>
                      \E j \in 1..Len(pres.hydro_df) :
                          /\ pres.hydro_df[j].t = pres.merged[i].t
                          /\ pres.hydro_df[j].h = pres.merged[i].h

\* the Y_Offset the summary table lists for the river mile (its last row
\* for that river mile), 0 when it lists none
ListedOffset ==
    LET idx == {i \in 1..Len(psummary) : psummary[i].rm = ProcRM}
    IN  IF idx = {} THEN Int2Num(0)
        ELSE psummary[CHOOSE i \in idx : \A j \in idx : j <= i].y

\* Arithmetic of the rationals, in which the value of a formula is stated.
\* It is not the arithmetic of the code, which computes in doubles (FAdd,
\* FSub, FMul, FDiv); a value that is not a number gives NaN.
Add(a, b) ==
    IF a.k # "num" \/ b.k # "num" THEN NaN
    ELSE Num(a.n * b.d + b.n * a.d, a.d * b.d)

Neg(a) == IF a.k # "num" THEN NaN ELSE Num(-a.n, a.d)

Sub(a, b) == Add(a, Neg(b))

Mul(a, b) ==
    IF a.k # "num" \/ b.k # "num" THEN NaN
    ELSE Num(a.n * b.n, a.d * b.d)

\* the quotient by a number other than zero
Div(a, b) ==
    IF a.k # "num" \/ b.k # "num" \/ b.n = 0 THEN NaN
    ELSE Num(a.n * b.d, a.d * b.n)

\* the value of the formula -(v + 1.9 - 0.32) * (400/30.48) + y in the
\* arithmetic of the rationals
FormulaValue(v, y) ==
    Add(Mul(Neg(Sub(Add(v, Num(19, 10)), Num(32, 100))),
            Div(Int2Num(400), Num(3048, 100))), y)

\* |a - b| for the natural numbers a and b with the signs sa and sb
BigDist(sa, a, sb, b) ==
    IF sa # sb THEN BigAdd(a, b)
    ELSE IF BigCmp(a, b) >= 0 THEN BigSub(a, b) ELSE BigSub(b, a)

\* |x - n/d| <= 10^-9 for a finite double x = (-1)^s * m * 2^e, in natural
\* numbers: |m * 2^(e + up) * d - n * 2^up| * 10^9 <= d * 2^up, where up
\* makes e + up >= 0
CloseAt(x, n, d, up) ==
    BigCmp(BigMul(BigDist(x.s, BigMul(BigShl(x.m, x.e + up), BigOfNat(d)),
                          IF n < 0 THEN 1 ELSE 0, BigShl(BigOfNat(Abs(n)), up)),
                  BigOfNat(10^9)),
           BigShl(BigOfNat(d), up)) <= 0

\* the double x is within 10^-9 of the rational cell c
WithinTolerance(x, c) ==
    /\ x.k = "num" /\ c.k = "num"
    /\ CloseAt(x, c.n, c.d, IF x.e < 0 THEN -x.e ELSE 0)

\* C4: convert_to_navd88 turns each numeric raw value v into
\* -(v + 1.9 - 0.32) * (400/30.48) + y, within the tolerance 10^-9 of the
\* formula's exact value, and sets Time (Minutes) to the double of
\* Time (Seconds) / 60, y being the listed Y_Offset or 0; a raw value that
\* is not numeric becomes missing.
C4_ConversionFormula ==
    pstage \in {"converted", "processed"} =>
        /\ Len(pconv) = Len(ptable.rows)
        /\ \A i \in 1..Len(pconv) :
             LET raw == ptable.rows[i].s[psensor]
                 t   == ptable.rows[i].t
                 c   == pconv[i].s[psensor]
                 m   == pconv[i].tmin
             IN  /\ m = float64(Div(t, Int2Num(60)))
                 /\ raw.k = "num" => WithinTolerance(c, FormulaValue(raw, ListedOffset))
                 /\ raw.k # "num" => c = FNaN

\* a converted table for a listed river mile with the raw value -1.58, for
\* which the doubles do not give the formula's exact value: the exact value
\* is the offset, the converted value is not that double
C4_Witness ==
    /\ pstage = "converted"
    /\ \E i \in 1..Len(psummary) : psummary[i].rm = ProcRM
    /\ \E i \in 1..Len(ptable.rows) :
         /\ ptable.rows[i].s[psensor] = Num(-158, 100)
         /\ ptable.rows[i].t.n > 0
         /\ FormulaValue(ptable.rows[i].s[psensor], ListedOffset) = ListedOffset
         /\ pconv[i].s[psensor] # float64(ListedOffset)

\* C10: with an empty sensor view and a non-empty hydrograph view the merged
\* table is the hydrograph view's rows, each with the sensor value missing
\* and the hydrograph value 0; with a non-empty sensor view the merged table
\* carries the hydrograph view's values unaltered.
C10_HydroFallback ==
    (pstage = "processed" /\ ~pres.raised) =>
        /\ (pres.sensor_df = <<>> /\ pres.hydro_df0 # <<>>) =>
             /\ Len(pres.merged) = Len(pres.hydro_df0)
             /\ \A t \in TimesOf(pres.hydro_df0) :
                    CountAt(pres.merged, t) = CountAt(pres.hydro_df0, t)
             /\ \A i \in 1..Len(pres.merged) :
                    /\ pres.merged[i].s = FNaN
                    /\ pres.merged[i].h = Int2Num(0)
        /\ pres.sensor_df # <<>> =>
             /\ \A j \in 1..Len(pres.hydro_df0) :
                    \E i \in 1..Len(pres.merged) :
                        /\ pres.merged[i].t = pres.hydro_df0[j].t
                        /\ pres.merged[i].h = pres.hydro_df0[j].h
             /\ \A i \in 1..Len(pres.merged) :
                    notna(pres.merged[i].h) =>
                        \E j \in 1..Len(pres.hydro_df0) :
                            /\ pres.hydro_df0[j].t = pres.merged[i].t
                            /\ pres.hydro_df0[j].h = pres.merged[i].h

\* a processed year slice whose sensor view is empty and whose hydrograph
\* view holds two rows
C10_Witness ==
    /\ pstage = "processed"
    /\ ~pres.raised
    /\ pres.sensor_df = <<>>
    /\ Len(pres.hydro_df0) = 2
    /\ Len(pres.merged) = 2

\* C27: for a non-empty year slice process_data reports invalid_rows as the
\* number of rows the sensor filter removed from the converted frame (sensor
\* value missing or zero) and valid_rows as the row count of the merged
\* table.
C27_InvalidRowsReported ==
    (pstage = "processed" /\ ~pres.raised /\ pres.metrics.original_rows > 0) =>
        /\ pres.metrics.invalid_rows
               = pres.metrics.original_rows - Len(pres.sensor_df)
        /\ pres.metrics.valid_rows = Len(pres.merged)

\* C28: for a table without a Hydrograph (Lagged) column process_data does
\* not raise and returns the rows of the sensor view in time order.
C28_NoHydrographColumn ==
    (/\ pstage = "processed"
     /\ ~ptable.hasHydro
     /\ \E i \in 1..Len(ptable.rows) : ptable.rows[i].yr = pyear) =>
        /\ ~pres.raised
        /\ Len(pres.merged) = Len(pres.sensor_df)
        /\ \A t \in TimesOf(pres.sensor_df) :
               CountAt(pres.merged, t) = CountAt(pres.sensor_df, t)
        /\ \A i \in 1..(Len(pres.merged) - 1) :
               ~Less(pres.merged[i + 1].t, pres.merged[i].t)

\* C20: the table returned by process_data is in ascending Time (Minutes)
\* order whatever the row order of the input, and each row's Time (Minutes)
\* is the double of its Time (Seconds) / 60.
C20_SortedByMinutes ==
    (pstage = "processed" /\ ~pres.raised) =>
        /\ \A i \in 1..(Len(pres.merged) - 1) :
               ~FLess(pres.merged[i + 1].tmin, pres.merged[i].tmin)
        /\ \A i \in 1..Len(pres.merged) :
               LET m == pres.merged[i].tmin
                   t == pres.merged[i].t
               IN  m = float64(Div(t, Int2Num(60)))

\* a processed year slice whose two rows came in descending time order
C20_Witness ==
    /\ pstage = "processed"
    /\ ~pres.raised
    /\ Len(ptable.rows) = 2
    /\ Less(ptable.rows[2].t, ptable.rows[1].t)
    /\ Len(pres.merged) = 2
    /\ FLess(pres.merged[1].tmin, pres.merged[2].tmin)

----------------------------------------------------------------------------
\* Properties of the application run (Spec)

\* the (river mile, sensor, year) combinations of the loaded datasets
LoadedJobs ==
    UNION { { [rm |-> rmData[i].rm,
               sensor |-> rmData[i].table.sensors[k],
               year |-> rmData[i].table.rows[r].yr] :
                 k \in 1..Len(rmData[i].table.sensors),
                 r \in 1..Len(rmData[i].table.rows) } : i \in 1..Len(rmData) }

VisitCount(job) == Cardinality({i \in 1..Len(visits) : visits[i] = job})

FailedStates == {"raised", "nochart", "savefail"}

\* C1: process_data visits every job of the loaded datasets exactly once,
\* whatever earlier jobs did (raise, no chart, save failure), and reaches its
\* end with every job visited.
C1_EveryJobVisitedOnce ==
    /\ \A i \in 1..Len(visits) : visits[i] \in LoadedJobs /\ VisitCount(visits[i]) = 1
    /\ pc \in {"finish", "ret", "exit"} /\ env.loadOk =>
           \A job \in LoadedJobs : VisitCount(job) = 1

\* C2: create_chart is called for a job if and only if its merged table has
\* at least 2 rows.
C2_RenderIffTwoRows ==
    pc = "finish" =>
        \A i \in 1..Len(jobs) : (i \in rendered) <=> (outcome[i].rows >= 2)

\* C5 as claimed: with setup and loading successful, main returns 0 even
\* when jobs failed.
C5_ExitZeroDespiteJobFailures ==
    (pc = "exit" /\ env.logOk /\ env.setupOk /\ env.loadOk) => exitCode = 0

\* C5 amended: with setup and loading successful, main returns 0 exactly
\* when the loops of process_data ran to their end (no Year column made
\* sorted() raise) and no job raised, failed to render or failed to save,
\* and 1 otherwise.
C5_ExitCodeReflectsJobFailures ==
    (pc = "exit" /\ env.logOk /\ env.setupOk /\ env.loadOk) =>
        /\ exitCode \in {0, 1}
        /\ exitCode = 0 <=>
               /\ ~loops_raise(rmData)
               /\ \A i \in 1..Len(jobs) : outcome[i].st \notin FailedStates
        /\ (\E i \in 1..Len(jobs) : outcome[i].st \in FailedStates) =>
               (error_count > 0 /\ runResult = "false")

\* main has returned 1 after a run whose only trouble was one failed job
C5_Witness ==
    /\ pc = "exit"
    /\ env.loadOk
    /\ exitCode = 1
    /\ Cardinality({i \in 1..Len(jobs) : outcome[i].st \in FailedStates}) = 1
    /\ \E i \in 1..Len(jobs) : outcome[i].st = "skipped"

\* C6: a missing summary or hydrograph file ends the run with a non-zero
\* exit status and without any job; process_data is entered only after
\* setup and load_data succeeded on existing files.
C6_MissingInputIsFatal ==
    /\ (env.summary = "missing" \/ (env.summary = "ok" /\ ~env.hydroExists)) =>
           /\ pc \in {"ret", "exit"}
           /\ runResult = "false"
           /\ visits = <<>> /\ rendered = {}
           /\ pc = "exit" => exitCode = 1
    /\ pc \in {"process", "job", "render", "save", "finish"} =>
           /\ env.setupOk
           /\ env.summary = "ok"
           /\ env.hydroExists

\* main has returned non-zero because the hydrograph file is missing
C6_Witness ==
    /\ pc = "exit"
    /\ exitCode = 1
    /\ env.setupOk
    /\ env.summary = "ok"
    /\ ~env.hydroExists

ValidFile(f) == f.name_ok /\ f.cols = "ok"

C12_OutputPathsDistinct ==
    \A i, j \in 1..Len(jobs) :
        (/\ i # j
         /\ jobs[i] # jobs[j]
         /\ outcome[i].st \in {"saved", "savefail"}
         /\ outcome[j].st \in {"saved", "savefail"})
        => output_path(jobs[i]) # output_path(jobs[j])

\* C23: every dataset held in river_mile_data has a river mile above zero.
C23_RiverMilePositive ==
    \A i \in 1..Len(rmData) : rmData[i].rm.n > 0

\* C24: the steps of a job happen in the order convert, merge, render,
\* save.  create_chart is called only for a job whose process_data call
\* returned a non-empty merged table, save_chart only for a job whose
\* create_chart call returned a figure; every file written is the output
\* file of a job whose save succeeded, so there is at most one file per job
\* and none for a job that was skipped or failed.
C24_StepsInOrder ==
    /\ \A i \in 1..Len(outcome) :
          /\ i \in rendered => (i <= Len(visits) /\ outcome[i].rows > 0)
          /\ outcome[i].st \in {"saved", "savefail"} => i \in rendered
          /\ outcome[i].st = "saved" => output_path(jobs[i]) \in written
    /\ pc = "render" =>
          /\ jobIdx \notin rendered
          /\ Len(visits) = jobIdx
          /\ ~cur.raised /\ cur.merged # <<>>
    /\ pc = "save" => (jobIdx \in rendered /\ jobIdx \in openFigs)
    /\ \A path \in written :
          \E i \in 1..Len(outcome) :
              outcome[i].st = "saved" /\ output_path(jobs[i]) = path
    /\ Cardinality(written) <= Cardinality({i \in 1..Len(outcome) : outcome[i].st = "saved"})

\* the loops have ended: one job went through process_data, create_chart and
\* save_chart, one was skipped for an empty merged table, one failed before
\* its save
C24_Witness ==
    /\ pc = "finish"
    /\ \E i, j, k \in 1..Len(jobs) :
         /\ outcome[i].st \in {"saved", "savefail"} /\ i \in rendered
         /\ outcome[j].st = "skipped" /\ j \notin rendered
         /\ outcome[k].st \in {"raised", "nochart"}
    /\ \A path \in written :
          \E i \in 1..Len(outcome) : output_path(jobs[i]) = path

\* C25: when the loops of process_data have ended, the counts of the final
\* summary line add up to the number of jobs.
C25_CountsSumToJobs ==
    pc = "finish" => success_count + error_count = Len(jobs)

\* the files of the processed directory that load_data loaded
LoadedFiles == {i \in 1..Len(loadLog) : loadLog[i] = "loaded"}

\* C29: after load_data every loaded file has its own entry of
\* river_mile_data: no dataset was replaced by that of a later file with the
\* same river mile.
C29_NoDatasetReplaced ==
    pc \in {"process", "job", "render", "save", "finish"} =>
        /\ Len(rmData) = Cardinality(LoadedFiles)
        /\ \A i \in LoadedFiles :
              \E e \in 1..Len(rmData) :
                  /\ rmData[e].rm = env.files[i].rm
                  /\ rmData[e].table = env.files[i].table

\* C30: main returns 0 only if at least one river-mile dataset was loaded.
C30_ExitZeroNeedsDataset ==
    (pc = "exit" /\ exitCode = 0) => Len(rmData) > 0

\* C8: once a job's save attempt is over its figure is closed, so no figure
\* is open when the next job starts or when the loops end.
C8_FigureClosedAfterSave ==
    /\ \A i \in 1..Len(jobs) :
           outcome[i].st \in {"saved", "savefail"} => i \notin openFigs
    /\ pc \in {"job", "finish"} => openFigs = {}

\* C9: a job whose chart was created and whose output location is writable
\* has its parent directory created and its image written, and is counted
\* in success_count.
C9_SaveSucceedsWhenWritable ==
    \A i \in 1..Len(jobs) :
        (outcome[i].st \in {"saved", "savefail"} /\ outcome[i].writable) =>
            /\ outcome[i].st = "saved"
            /\ output_path(jobs[i]) \in written
            /\ output_path(jobs[i]).dir \in dirs
            /\ success_count >= 1

----------------------------------------------------------------------------
\* Properties of the stand-alone functions (SpecFn)

SeqRange(q) == {q[i] : i \in 1..Len(q)}

\* C13: create_visualization fails (DataVisualizationError, no figure)
\* whenever the Time_(Hours) column, the sensor column or the mapped
\* hydrograph column is absent from the plot data, or fewer than 2 rows hold
\* a valid (present, positive, finite) sensor and hydrograph value; it
\* returns a figure only for at least 2 valid rows.
C13_VisualizationNeedsTwoRows ==
    (fop = "create_visualization" /\ fstage = "out") =>
        LET cols == fin.plot_data.columns
            mapped == {fin.column_mappings[i].v :
                         i \in {j \in 1..Len(fin.column_mappings) :
                                  fin.column_mappings[j].k = "hydrograph"}}
            absent == \/ mapped = {}
                      \/ ~(mapped \cup {"Time_(Hours)", fin.sensor} \subseteq cols)
            ok(c) == c.k = "num" /\ c.n > 0
            valid == {i \in 1..Len(fin.plot_data.rows) :
                        \A c \in mapped \cup {fin.sensor} :
                            ok(fin.plot_data.rows[i][c])}
        IN  /\ (absent \/ Cardinality(valid) < 2) => (fout.raised /\ ~fout.fig)
            /\ fout.fig => (~absent /\ Cardinality(valid) >= 2)

\* all entries are the same number
ZeroVariance(q) == \A i, j \in 1..Len(q) : q[i].k = "num" /\ FEq(q[i], q[j])

\* C14: calculate_correlation returns a coefficient in [-1, 1] for every
\* pair of series of the same length, and exactly 0.0 with the label
\* "No correlation (insufficient variation in data)" when one of the two
\* series has zero variance.
C14_CorrelationBounded ==
    (fop = "calculate_correlation" /\ fstage = "out") =>
        /\ FGeq(fout.coef, FInt(-1))
        /\ FGeq(FInt(1), fout.coef)
        /\ (ZeroVariance(fin.x) \/ ZeroVariance(fin.y)) =>
               /\ FIsZero(fout.coef)
               /\ fout.interp = <<"No correlation (insufficient variation in data)">>

\* the bands of the claim on abs(r): at least 0.9, 0.7, 0.5, 0.3
BandOf(r) ==
    IF ~FLess(FAbs(r), FNum(9, 10)) /\ r.k # "nan" THEN "Very strong"
    ELSE IF ~FLess(FAbs(r), FNum(7, 10)) /\ r.k # "nan" THEN "Strong"
    ELSE IF ~FLess(FAbs(r), FNum(5, 10)) /\ r.k # "nan" THEN "Moderate"
    ELSE IF ~FLess(FAbs(r), FNum(3, 10)) /\ r.k # "nan" THEN "Weak"
    ELSE "Very weak or no"

Interpretation(r) ==
    <<BandOf(r), IF r.k # "nan" /\ (r.s = 0 \/ FIsZero(r)) THEN "positive" ELSE "negative",
      "relationship">>

\* C15: the interpretation of r is "<strength> <direction> relationship" with
\* the strength bands 0.9 / 0.7 / 0.5 / 0.3 on |r| and the direction
\* positive for r >= 0, for interpret_correlation of both scripts and for
\* what calculate_correlation returns; x = [1..5], y = [2, 4, .., 10] gives
\* 1.0 and "Very strong positive relationship".
C15_InterpretationString ==
    /\ (fop = "interpret_correlation" /\ fstage = "out") =>
           /\ fout.visualizer = Interpretation(fin.correlation)
           /\ fout.explanation = Interpretation(fin.correlation)
    /\ (fop = "calculate_correlation" /\ fstage = "out" /\ fin = ExampleCall) =>
           /\ fout.coef = FInt(1)
           /\ fout.interp = <<"Very strong", "positive", "relationship">>

\* the indices of the entries that are present, positive and finite
KeptIdx(q) == {i \in 1..Len(q) : q[i].k = "num" /\ q[i].n > 0}

\* C16: validate_numeric_data returns exactly the entries that are present,
\* strictly positive and finite, in their original order, and applied to its
\* own result it returns that result.
C16_KeepsValidEntries ==
    /\ (fop = "validate_numeric_data" /\ fstage \in {"out", "again"}) =>
           LET kept == KeptIdx(fin.data)
           IN  /\ Len(fout.data) = Cardinality(kept)
               /\ \A j \in 1..Len(fout.data) :
                      \E i \in kept :
                          /\ Cardinality({m \in kept : m <= i}) = j
                          /\ fout.data[j] = fin.data[i]
    /\ (fop = "validate_numeric_data" /\ fstage = "again") => fout = fin

\* a series with a negative entry between two valid ones has been filtered
C16_Witness ==
    /\ fop = "validate_numeric_data" /\ fstage = "out"
    /\ fin.data = <<Int2Num(5), Int2Num(-3), Num(1, 2)>>
    /\ fout.data = <<Int2Num(5), Num(1, 2)>>

\* C17: _validate_columns raises exactly when a required column is absent
\* from the table; the message then names every absent required column and
\* the context string.
C17_MissingColumnsNamed ==
    (fop = "validate_columns" /\ fstage = "out") =>
        LET absent == SeqRange(fin.required_cols) \ fin.columns
        IN  /\ fout.raised <=> absent # {}
            /\ fout.raised => /\ fout.context = fin.context
                              /\ SeqRange(fout.columns) = absent

\* the check has raised for a table that lacks two of three required columns
C17_Witness ==
    /\ fop = "validate_columns" /\ fstage = "out"
    /\ Len(fin.required_cols) = 3
    /\ fout.raised
    /\ Len(fout.columns) = 2

\* C18: Config.from_dict takes the overridden NAVD88 constants (defaults
\* 1.9, 0.32, 400/30.48 for those not overridden) and convert_to_navd88
\* computes -(v + offset_a - offset_b) * scale_factor + y with the constants
\* of that configuration.
C18_ConfiguredConstantsUsed ==
    (fop = "convert_to_navd88" /\ fstage = "out") =>
        LET k == fout.config.navd88_constants
            y == offsets_get(fin.summary, ProcRM)
        IN  /\ \A i \in 1..Len(fin.config_dict) :
                 \A j \in 1..Len(fin.config_dict[i].v) :
                    k[fin.config_dict[i].v[j].k] = fin.config_dict[i].v[j].v
            /\ fin.config_dict = <<>> =>
                 k = [offset_a |-> FNum(19, 10), offset_b |-> FNum(32, 100),
                      scale_factor |-> FDiv(FInt(400), FNum(3048, 100))]
            /\ \A i \in 1..Len(fout.call.processed) :
                 LET raw == fin.data[i].s[fin.sensor]
                 IN  raw.k = "num" =>
                       fout.call.processed[i].s[fin.sensor] =
                           FAdd(FMul(FNeg(FSub(FAdd(float64(raw), k.offset_a),
                                               k.offset_b)),
                                     k.scale_factor), float64(y))

\* C19: convert_to_navd88 leaves the caller's table as it was and returns a
\* table with the same rows in the same order, in which Time (Minutes) is
\* added and every column other than the named sensor column is as in the
\* input.
C19_ConvertFrame ==
    (fop = "convert_to_navd88" /\ fstage = "out") =>
        /\ fout.call.data = fin.data
        /\ Len(fout.call.processed) = Len(fin.data)
        /\ \A i \in 1..Len(fin.data) :
             LET a == fin.data[i]
                 b == fout.call.processed[i]
             IN  /\ DOMAIN b = DOMAIN a \cup {"tmin"}
                 /\ b.tmin # FNaN
                 /\ b.t = a.t /\ b.yr = a.yr /\ b.h = a.h
                 /\ DOMAIN b.s = DOMAIN a.s
                 /\ \A c \in DOMAIN a.s \ {fin.sensor} : b.s[c] = a.s[c]

\* two rows with values in both sensor columns have been converted for
\* Sensor_1
C19_Witness ==
    /\ fop = "convert_to_navd88" /\ fstage = "out"
    /\ fin.sensor = "Sensor_1"
    /\ Len(fin.data) = 2
    /\ \A i \in 1..2 : /\ fin.data[i].s["Sensor_1"] = Int2Num(5)
                       /\ fin.data[i].s["Sensor_2"] = Int2Num(5)
                       /\ fout.call.processed[i].s["Sensor_1"] # FInt(5)
    /\ fin.data[1].t # fin.data[2].t

\* q holds two dots next to each other
HasDotDot(q) == \E i \in 1..(Len(q) - 1) : q[i] = "." /\ q[i + 1] = "."

\* C21: whatever the filename, a string or not, _sanitize_filename returns
\* a text without '/' and without '..'.
C21_NoSlashNoDotDot ==
    (fop = "sanitize_filename" /\ fstage = "out") =>
        /\ \A i \in 1..Len(fout) : fout[i] # "/"
        /\ ~HasDotDot(fout)

\* a filename with '..' between other characters and a '/' was sanitized
C21_Witness ==
    /\ fop = "sanitize_filename" /\ fstage = "out"
    /\ fin.filename.kind = "str"
    /\ \E i \in 2..(Len(fin.filename.text) - 2) :
          /\ fin.filename.text[i] = "." /\ fin.filename.text[i + 1] = "."
          /\ fin.filename.text[i - 1] = "/"
          /\ fin.filename.text[i + 2] \notin {".", " "}
    /\ fout # <<>>

\* C22: _sanitize_filename('../../../etc/passwd') is '._._._etc_passwd'.
C22_TraversalExample ==
    (fop = "sanitize_filename" /\ fstage = "out"
        /\ fin.filename = [kind |-> "str", text |-> TraversalInput, value |-> 0]) =>
        fout = <<".", "_", ".", "_", ".", "_", "e", "t", "c", "_",
                 "p", "a", "s", "s", "w", "d">>

----------------------------------------------------------------------------
\* Properties of DataAnalyzer (SpecAnalyzer)

\* C11: the second call of process_all_data writes no file, and a call of
\* _process_year_data whose destination file exists neither calls
\* create_visualization nor saves, and leaves that file as it was.
C11_SecondRunWritesNothing ==
    \A i \in 1..Len(alog) :
        /\ alog[i].run = 2 => (~alog[i].saved /\ alog[i].after = alog[i].before)
        /\ alog[i].existed =>
               /\ ~alog[i].rendered
               /\ ~alog[i].saved
               /\ alog[i].after = alog[i].before

\* both calls are over: the first wrote a file and had a job that failed,
\* the second found the written file and skipped the job
C11_Witness ==
    /\ apc = "done"
    /\ \E i, j, k \in 1..Len(alog) :
         /\ alog[i].run = 1 /\ alog[i].saved
         /\ alog[j].run = 1 /\ alog[j].rendered /\ ~alog[j].ret
         /\ alog[k].run = 2 /\ alog[k].path = alog[i].path
         /\ alog[k].existed /\ alog[k].ret /\ ~alog[k].rendered

====
